---- MODULE Spec2Model ----
(***************************************************************************)
(* Rochester Darting Degens: the statistics aggregation of the home page   *)
(* (src/app/page.tsx).  loadStats fetches the joined match_players rows    *)
(* and folds them into the leaderboard state; headToHeadStats and          *)
(* gameTypeStats derive the per-player tables from that state.  The        *)
(* player page (src/app/profiles/[id]/page.tsx) aggregates the rows of one *)
(* player, and the matches page (src/app/matches/layout.tsx) keeps the     *)
(* paginated match list.                                                   *)
(*                                                                         *)
(* Numbers.  winPct and avg are JavaScript doubles obtained by one         *)
(* division of small integers; they are kept here as exact fractions       *)
(* <<numerator, denominator>> and compared by cross-multiplication.        *)
(* played_at is kept as the instant that new Date(played_at).getTime()     *)
(* yields.  A missing score is NoScore; a missing game type, player id or  *)
(* match id is the empty string (falsy in the source).                     *)
(***************************************************************************)
EXTENDS Integers, Sequences, FiniteSets, TLC

VARIABLES
    match_players,   \* the rows the select of loadStats returns, in fetch order
    loading,         \* useState(true)
    errorMessage,    \* useState<string | null>(null); "" stands for null
    winLossStats,    \* useState<WinLossStats[]>([])
    threeDartStats,  \* useState<AverageStats[]>([])
    mprStats,        \* useState<AverageStats[]>([])
    headToHeadMap,   \* useState<HeadToHeadMap>(new Map())
    gameTypeMap,     \* useState<Map<player, Map<type, entry>>>(new Map())
    playerNames,     \* useState<Map<string, string>>(new Map())
    loadRuns,        \* history: rows and tables of each answered run of loadStats
    \* ProfilePage
    profilePc,           \* the await loadProfileAndStatsAndMatches is suspended at
    profile,             \* useState<Profile | null>(null); "" stands for null
    stats,               \* useState<PlayerStatsSummary | null>(null); <<>> is null
    recentMatches,       \* useState<MatchSummary[]>([])
    profileLoading,      \* loading of ProfilePage
    profileErrorMessage, \* errorMessage of ProfilePage; "" stands for null
    \* MatchesPage
    matchesPc,           \* for each started run of load, the await it is suspended at
    clearedFrom,         \* history: the match view clearMatchesState was last called on
    pageRequests,        \* the pages reloadMatches was clicked for, unanswered
    user,                \* useState<any>(null); "" stands for null
    matchesLoading,      \* loading of MatchesPage
    profiles,            \* useState<Profile[]>([])
    matches,             \* useState<Match[]>([])
    matchesErrorMessage, \* errorMessage of MatchesPage; "" stands for null
    currentPage,         \* useState(1)
    totalPages,          \* useState(1)
    formGameType,        \* gameType of MatchesPage: useState('501')
    numPlayers,          \* useState(2)
    playerEntries,       \* useState<PlayerEntry[]>([{...}, {...}])
    winnerPlayerId,      \* useState<string>('')
    editingMatchId,      \* useState<number | null>(null); 0 stands for null
    saveCalls,           \* the calls of handleSaveMatch suspended at an await
    \* the store
    storedMatches,       \* table matches; the row of id k is storedMatches[k]
    storedMatchPlayers,  \* table match_players, in insertion order
    \* the account deletion endpoint
    supabaseAdmin,       \* TRUE if the admin client was created, FALSE for null
    storedProfiles,      \* table profiles: the ids that have a row
    authUsers,           \* the identity records: the ids that have one
    deleteRequests,      \* the calls of POST suspended at an await
    deleteAnswers,       \* history: the responses POST returned
    \* ProfilePage, the match history
    activeTab,             \* useState<'recent' | 'all'>('recent')
    allMatchesPage,        \* useState(1)
    allMatchesTotalPages,  \* useState(1)
    gameTypeFilter,        \* useState('all')
    resultFilter,          \* useState('all')
    allMatches,            \* useState<MatchSummary[]>([])
    allMatchesLoading,     \* useState<boolean>(false)
    allMatchesError,       \* useState<string | null>(null); "" stands for null
    visibleAllMatches,     \* useState<MatchSummary[]>([])
    allMatchesRequests,    \* the calls of loadAllMatches suspended at their await
    latestRequest,         \* history: the call of loadAllMatches started last
    \* Home, the signed-in user and the player selects
    authLoading,             \* useState(true)
    homeUser,                \* user of Home: useState<User | null>(null); "" is null
    selectedHeadPlayer,      \* useState<string>('')
    selectedGameTypePlayer   \* useState<string>('')

homeVars == <<match_players, loading, errorMessage, winLossStats, threeDartStats,
              mprStats, headToHeadMap, gameTypeMap, playerNames, loadRuns>>
profilePageVars == <<profilePc, profile, stats, recentMatches, profileLoading,
                     profileErrorMessage>>
matchesPageVars == <<matchesPc, clearedFrom, pageRequests, user, matchesLoading, profiles,
                     matches, matchesErrorMessage, currentPage, totalPages>>

storeVars == <<storedMatches, storedMatchPlayers>>
matchFormVars == <<formGameType, numPlayers, playerEntries, winnerPlayerId,
                   editingMatchId, saveCalls>>
accountVars == <<supabaseAdmin, storedProfiles, authUsers, deleteRequests, deleteAnswers>>
allMatchesVars == <<activeTab, allMatchesPage, allMatchesTotalPages, gameTypeFilter,
                    resultFilter, allMatches, allMatchesLoading, allMatchesError,
                    visibleAllMatches, allMatchesRequests, latestRequest>>
selectionVars == <<authLoading, homeUser, selectedHeadPlayer, selectedGameTypePlayer>>
\* the state outside MatchesPage
elsewhereVars == <<homeVars, profilePageVars, accountVars, allMatchesVars, selectionVars>>
otherVars == <<storeVars, matchFormVars, accountVars, allMatchesVars, selectionVars>>
\* the state of the pages
clientVars == <<homeVars, profilePageVars, matchesPageVars, storeVars, matchFormVars,
                allMatchesVars, selectionVars>>

vars == <<homeVars, profilePageVars, matchesPageVars, otherVars>>

----------------------------------------------------------------------------
(* Bounds of the explored inputs *)

MaxRows == 4
MaxScoredRows == 3
MaxGames == 11
MaxTypedRows == 3
MaxBothPagesRows == 3
MaxSelectRows == 2
MaxCategoryRows == 3
MaxRerunRows == 2
MaxRawRows == 3
MaxLoads == 2        \* runs of the load effect of MatchesPage on one mount
MaxMatchCount == 21  \* matches in the store
MaxRuns == 2         \* answered runs of loadStats on one mounted page
MaxNumPlayers == 3   \* the largest number of players picked in the match form
MaxSaveCalls == 1    \* calls of handleSaveMatch in flight
MaxStoredMatches == 2 \* rows of table matches
MaxDeleteRequests == 2 \* requests the account deletion endpoint receives
MaxHistory == 12     \* matches the player of the profile page played
MaxAllRequests == 2  \* calls of loadAllMatches in flight

----------------------------------------------------------------------------
(* Values *)

NoScore == -1        \* score: null
NoPlayedAt == 0      \* played_at: empty
Epoch == 0           \* new Date('1970-01-01T00:00:00.000Z').getTime()

GAME_TYPE_ORDER == <<"Cricket", "501", "301", "Other">>

\* JS Map: a sequence of [key, val] entries in insertion order
MapHas(m, k) == \E i \in DOMAIN m : m[i].key = k
MapGet(m, k) == m[CHOOSE i \in DOMAIN m : m[i].key = k].val
MapSet(m, k, v) ==
    IF MapHas(m, k)
    THEN [i \in DOMAIN m |-> IF m[i].key = k THEN [key |-> k, val |-> v] ELSE m[i]]
    ELSE Append(m, [key |-> k, val |-> v])

\* slice(0, k): the first k entries
SliceLast_First(s, k) ==
    IF Len(s) <= k THEN s ELSE SubSeq(s, 1, k)

\* Array.prototype.slice(-k)
SliceLast(s, k) ==
    IF Len(s) <= k THEN s ELSE SubSeq(s, Len(s) - k + 1, Len(s))

\* Array.prototype.sort with a comparator: a stable sort; before[i][j] is
\* "compare(s[i], s[j]) < 0"
StableSort(s, before) ==
    LET n == Len(s)
        rank == [i \in 1..n |->
                    Cardinality({j \in 1..n :
                        \/ before[j][i]
                        \/ (~before[i][j] /\ j < i)}) + 1]
    IN  [k \in 1..n |-> s[CHOOSE i \in 1..n : rank[i] = k]]

\* exact fractions <<num, den>>, den > 0
Frac(n, d) == <<n, d>>
FracEq(a, b) == a[1] * b[2] = b[1] * a[2]
FracLess(a, b) == a[1] * b[2] < b[1] * a[2]

----------------------------------------------------------------------------
(* lib/playerName.ts, as the home page calls it: two arguments, so the     *)
(* first name is shown; the stored names carry no surrounding blanks       *)

formatPlayerName(display_name, first_name) ==
    IF display_name # "" /\ first_name # ""
    THEN display_name \o " (" \o first_name \o ")"
    ELSE IF display_name # "" THEN display_name
    ELSE IF first_name # "" THEN first_name
    ELSE "Unknown player"

----------------------------------------------------------------------------
(* page.tsx: helpers of Home *)

\* a category that is the game type itself whenever there is one
categorizeGameType_Raw(gameType) ==
    IF gameType = "" THEN "Other" ELSE gameType

categorizeGameType(gameType) ==
    IF gameType = "Cricket" THEN "Cricket"
    ELSE IF gameType = "501" THEN "501"
    ELSE IF gameType = "301" THEN "301"
    ELSE "Other"

\* a comparator that sorts newest first
playedAtBefore_Descending(a, b) == a.playedAt > b.playedAt

\* the comparator of outcomes.sort: ascending playedAt
playedAtBefore(a, b) == a.playedAt < b.playedAt

sortOutcomes(outcomes) ==
    StableSort(outcomes,
               [i \in DOMAIN outcomes |-> [j \in DOMAIN outcomes |->
                   playedAtBefore(outcomes[i], outcomes[j])]])

\* a loop that counts every outcome equal to the last one, without the break
RECURSIVE streakLoop_NoBreak(_, _, _, _)
streakLoop_NoBreak(sorted, i, streakType, streakCount) ==
    IF i < 1 THEN [type |-> streakType, count |-> streakCount]
    ELSE LET res == IF sorted[i].isWin THEN "W" ELSE "L"
         IN  IF streakType = ""
             THEN streakLoop_NoBreak(sorted, i - 1, res, 1)
             ELSE IF streakType = res
             THEN streakLoop_NoBreak(sorted, i - 1, streakType, streakCount + 1)
             ELSE streakLoop_NoBreak(sorted, i - 1, streakType, streakCount)

\* the streak loop: walks the sorted outcomes from the last one backwards
RECURSIVE streakLoop(_, _, _, _)
streakLoop(sorted, i, streakType, streakCount) ==
    IF i < 1 THEN [type |-> streakType, count |-> streakCount]
    ELSE LET res == IF sorted[i].isWin THEN "W" ELSE "L"
         IN  IF streakType = ""
             THEN streakLoop(sorted, i - 1, res, 1)
             ELSE IF streakType = res
             THEN streakLoop(sorted, i - 1, streakType, streakCount + 1)
             ELSE [type |-> streakType, count |-> streakCount]

formatStreak(sorted) ==
    LET s == streakLoop(sorted, Len(sorted), "", 0)
    IN  IF s.type # "" THEN s.type \o ToString(s.count) ELSE ""

\* `${wins}-${losses}` over slice(-k)
formatRecent(sorted, k) ==
    LET recent == SliceLast(sorted, k)
        wins == Len(SelectSeq(recent, LAMBDA o : o.isWin))
        losses == Len(recent) - wins
    IN  ToString(wins) \o "-" \o ToString(losses)

\* a summary without the early return for an empty list
summarizeOutcomes_NoEmptyCase(outcomes) ==
    LET sorted == sortOutcomes(outcomes)
    IN  [streak |-> formatStreak(sorted),
         last5  |-> formatRecent(sorted, 5),
         last10 |-> formatRecent(sorted, 10)]

summarizeOutcomes(outcomes) ==
    IF Len(outcomes) = 0
    THEN [streak |-> "", last5 |-> "", last10 |-> ""]
    ELSE LET sorted == sortOutcomes(outcomes)
         IN  [streak |-> formatStreak(sorted),
              last5  |-> formatRecent(sorted, 5),
              last10 |-> formatRecent(sorted, 10)]

winPctOf(wins, games) ==
    IF games > 0 THEN Frac(wins * 100, games) ELSE Frac(0, 1)

----------------------------------------------------------------------------
(* page.tsx: loadStats *)

\* maps that outlive the run: the game-type and name maps the page state
\* holds are filled further
emptyMaps_Kept ==
    [wlMap |-> <<>>, outcomesMap |-> <<>>, threeMap |-> <<>>, mprMap |-> <<>>,
     matchParticipants |-> <<>>, playerNameMap |-> playerNames,
     perGameTypeMap |-> gameTypeMap]

\* the maps loadStats creates, new in every run
emptyMaps ==
    [wlMap |-> <<>>, outcomesMap |-> <<>>, threeMap |-> <<>>, mprMap |-> <<>>,
     matchParticipants |-> <<>>, playerNameMap |-> <<>>, perGameTypeMap |-> <<>>]

\* if (row.match_id) { ... match.participants.push(...) }
addParticipant(matchParticipants, row, playedAt, isWin, displayName) ==
    IF row.match_id = "" THEN matchParticipants
    ELSE LET match == IF MapHas(matchParticipants, row.match_id)
                      THEN MapGet(matchParticipants, row.match_id)
                      ELSE [playedAt |-> playedAt, participants |-> <<>>]
         IN  MapSet(matchParticipants, row.match_id,
                    [match EXCEPT !.participants =
                        Append(@, [playerId |-> row.player_id,
                                   isWinner |-> isWin,
                                   displayName |-> displayName])])

\* a tally that forgets the else branch
tallyWinLoss_NoLoss(wl, isWin) ==
    [wl EXCEPT !.games = @ + 1,
               !.wins = IF isWin THEN @ + 1 ELSE @]

\* wl.games += 1; if (isWin) wl.wins += 1; else wl.losses += 1
tallyWinLoss(wl, isWin) ==
    [wl EXCEPT !.games = @ + 1,
               !.wins = IF isWin THEN @ + 1 ELSE @,
               !.losses = IF isWin THEN @ ELSE @ + 1]

addWinLoss(wlMap, playerId, displayName, isWin) ==
    LET wl == IF MapHas(wlMap, playerId) THEN MapGet(wlMap, playerId)
              ELSE [playerId |-> playerId, displayName |-> displayName,
                    wins |-> 0, losses |-> 0, games |-> 0]
    IN  MapSet(wlMap, playerId, tallyWinLoss(wl, isWin))

addOutcome(outcomesMap, playerId, playedAt, isWin) ==
    LET outcomes == IF MapHas(outcomesMap, playerId)
                    THEN MapGet(outcomesMap, playerId) ELSE <<>>
    IN  MapSet(outcomesMap, playerId,
               Append(outcomes, [playedAt |-> playedAt, isWin |-> isWin]))

\* an accumulation that counts an absent score as a game scoring 0
addAverage_NullAsZero(avgMap, qualifies, playerId, displayName, score) ==
    IF qualifies
    THEN LET e == IF MapHas(avgMap, playerId) THEN MapGet(avgMap, playerId)
                  ELSE [playerId |-> playerId, displayName |-> displayName,
                        total |-> 0, games |-> 0]
         IN  MapSet(avgMap, playerId,
                    [e EXCEPT !.total = @ + (IF score = NoScore THEN 0 ELSE score),
                              !.games = @ + 1])
    ELSE avgMap

\* an accumulation that does not look at the game type
addAverage_AnyType(avgMap, qualifies, playerId, displayName, score) ==
    IF score # NoScore
    THEN LET e == IF MapHas(avgMap, playerId) THEN MapGet(avgMap, playerId)
                  ELSE [playerId |-> playerId, displayName |-> displayName,
                        total |-> 0, games |-> 0]
         IN  MapSet(avgMap, playerId,
                    [e EXCEPT !.total = @ + score, !.games = @ + 1])
    ELSE avgMap

\* if (qualifies && typeof score === 'number') { total += score; games += 1 }
addAverage(avgMap, qualifies, playerId, displayName, score) ==
    IF qualifies /\ score # NoScore
    THEN LET e == IF MapHas(avgMap, playerId) THEN MapGet(avgMap, playerId)
                  ELSE [playerId |-> playerId, displayName |-> displayName,
                        total |-> 0, games |-> 0]
         IN  MapSet(avgMap, playerId,
                    [e EXCEPT !.total = @ + score, !.games = @ + 1])
    ELSE avgMap

\* gameEntry.games += 1; if (isWin) gameEntry.wins += 1; else gameEntry.losses += 1
tallyGameEntry(gameEntry, isWin) ==
    [gameEntry EXCEPT !.games = @ + 1,
                      !.wins = IF isWin THEN @ + 1 ELSE @,
                      !.losses = IF isWin THEN @ ELSE @ + 1]

addGameType(perGameTypeMap, playerId, gameTypeLabel, playedAt, isWin) ==
    LET playerGameMap == IF MapHas(perGameTypeMap, playerId)
                         THEN MapGet(perGameTypeMap, playerId) ELSE <<>>
        gameEntry == IF MapHas(playerGameMap, gameTypeLabel)
                     THEN MapGet(playerGameMap, gameTypeLabel)
                     ELSE [wins |-> 0, losses |-> 0, games |-> 0, outcomes |-> <<>>]
        counted == tallyGameEntry(gameEntry, isWin)
    IN  MapSet(perGameTypeMap, playerId,
               MapSet(playerGameMap, gameTypeLabel,
                      [counted EXCEPT !.outcomes =
                          Append(@, [playedAt |-> playedAt, isWin |-> isWin])]))

\* a loop body without `if (!playerId) continue`
processRow_NoSkip(acc, row) ==
    LET playerId == row.player_id
        displayName == formatPlayerName(row.profiles.display_name,
                                        row.profiles.first_name)
        gameType == row.matches.game_type
        playedAt == IF row.matches.played_at = NoPlayedAt THEN Epoch
                    ELSE row.matches.played_at
        isCricket == gameType = "Cricket"
        isX01Game == gameType = "501" \/ gameType = "301"
        score == row.score
        isWin == row.is_winner = TRUE
        gameTypeLabel == categorizeGameType(gameType)
    IN  [wlMap |-> addWinLoss(acc.wlMap, playerId, displayName, isWin),
         outcomesMap |-> addOutcome(acc.outcomesMap, playerId, playedAt, isWin),
         threeMap |-> addAverage(acc.threeMap, isX01Game, playerId, displayName, score),
         mprMap |-> addAverage(acc.mprMap, isCricket, playerId, displayName, score),
         matchParticipants |->
             addParticipant(acc.matchParticipants, row, playedAt, isWin, displayName),
         playerNameMap |-> MapSet(acc.playerNameMap, playerId, displayName),
         perGameTypeMap |->
             addGameType(acc.perGameTypeMap, playerId, gameTypeLabel, playedAt, isWin)]

\* one pass of the `for (const row of rows)` loop
\* (match_id "" is a missing match id, player_id "" a missing player id)
processRow(acc, row) ==
    IF row.player_id = "" THEN acc
    ELSE LET playerId == row.player_id
             displayName == formatPlayerName(row.profiles.display_name,
                                             row.profiles.first_name)
             gameType == row.matches.game_type
             playedAt == IF row.matches.played_at = NoPlayedAt THEN Epoch
                         ELSE row.matches.played_at
             isCricket == gameType = "Cricket"
             isX01Game == gameType = "501" \/ gameType = "301"
             score == row.score
             isWin == row.is_winner = TRUE
             gameTypeLabel == categorizeGameType(gameType)
         IN  [wlMap |-> addWinLoss(acc.wlMap, playerId, displayName, isWin),
              outcomesMap |-> addOutcome(acc.outcomesMap, playerId, playedAt, isWin),
              threeMap |-> addAverage(acc.threeMap, isX01Game, playerId, displayName, score),
              mprMap |-> addAverage(acc.mprMap, isCricket, playerId, displayName, score),
              matchParticipants |->
                  addParticipant(acc.matchParticipants, row, playedAt, isWin, displayName),
              playerNameMap |-> MapSet(acc.playerNameMap, playerId, displayName),
              perGameTypeMap |->
                  addGameType(acc.perGameTypeMap, playerId, gameTypeLabel, playedAt, isWin)]

RECURSIVE processRows(_, _)
processRows(acc, rows) ==
    IF rows = <<>> THEN acc
    ELSE processRows(processRow(acc, Head(rows)), Tail(rows))

\* the inline streak / last 5 / last 10 of the wlList .map callback
RECURSIVE wlStreakLoop(_, _, _, _)
wlStreakLoop(outcomes, i, streakType, streakCount) ==
    IF i < 1 THEN [type |-> streakType, count |-> streakCount]
    ELSE LET res == IF outcomes[i].isWin THEN "W" ELSE "L"
         IN  IF streakType = ""
             THEN wlStreakLoop(outcomes, i - 1, res, 1)
             ELSE IF streakType = res
             THEN wlStreakLoop(outcomes, i - 1, streakType, streakCount + 1)
             ELSE [type |-> streakType, count |-> streakCount]

wlStreak(outcomes) ==
    LET s == wlStreakLoop(outcomes, Len(outcomes), "", 0)
    IN  IF s.type # "" THEN s.type \o ToString(s.count) ELSE ""

wlRecent(outcomes, k) ==
    LET recent == SliceLast(outcomes, k)
        wins == Len(SelectSeq(recent, LAMBDA o : o.isWin))
        losses == Len(recent) - wins
    IN  ToString(wins) \o "-" \o ToString(losses)

wlRecord(e, outcomesMap) ==
    LET unsorted == IF MapHas(outcomesMap, e.playerId)
                    THEN MapGet(outcomesMap, e.playerId) ELSE <<>>
        outcomes == StableSort(unsorted,
                               [i \in DOMAIN unsorted |-> [j \in DOMAIN unsorted |->
                                   playedAtBefore(unsorted[i], unsorted[j])]])
        has == Len(outcomes) > 0
    IN  [playerId |-> e.playerId,
         displayName |-> e.displayName,
         wins |-> e.wins,
         losses |-> e.losses,
         games |-> e.games,
         winPct |-> winPctOf(e.wins, e.games),
         streak |-> IF has THEN wlStreak(outcomes) ELSE "",
         last5 |-> IF has THEN wlRecent(outcomes, 5) ELSE "",
         last10 |-> IF has THEN wlRecent(outcomes, 10) ELSE ""]

\* a comparator without the games tie-break
winLossBefore_NoGames(a, b) ==
    IF ~FracEq(b.winPct, a.winPct) THEN FracLess(b.winPct, a.winPct)
    ELSE b.wins < a.wins

\* compare(a, b) < 0 of the win/loss sort: winPct desc, wins desc, games desc
winLossBefore(a, b) ==
    IF ~FracEq(b.winPct, a.winPct) THEN FracLess(b.winPct, a.winPct)
    ELSE IF b.wins # a.wins THEN b.wins < a.wins
    ELSE b.games < a.games

wlListOf(maps) ==
    LET mapped == [i \in DOMAIN maps.wlMap |->
                      wlRecord(maps.wlMap[i].val, maps.outcomesMap)]
    IN  StableSort(mapped,
                   [i \in DOMAIN mapped |-> [j \in DOMAIN mapped |->
                       winLossBefore(mapped[i], mapped[j])]])

\* a comparator without the games tie-break
averageBefore_NoGames(a, b) == FracLess(b.avg, a.avg)

\* compare(a, b) < 0 of the average sort: avg desc, games desc
averageBefore(a, b) ==
    IF ~FracEq(b.avg, a.avg) THEN FracLess(b.avg, a.avg)
    ELSE b.games < a.games

averageRecord(e) ==
    [playerId |-> e.playerId,
     displayName |-> e.displayName,
     avg |-> IF e.games > 0 THEN Frac(e.total, e.games) ELSE Frac(0, 1),
     games |-> e.games]

averageListOf(avgMap) ==
    LET mapped == [i \in DOMAIN avgMap |-> averageRecord(avgMap[i].val)]
        kept == SelectSeq(mapped, LAMBDA e : e.games > 0)
    IN  StableSort(kept,
                   [i \in DOMAIN kept |-> [j \in DOMAIN kept |->
                       averageBefore(kept[i], kept[j])]])

\* a pairing that records the opponent's winner flag
headAddPair_OpponentFlag(headMap, match, participant, opponent) ==
    IF participant.playerId = opponent.playerId THEN headMap
    ELSE LET playerMap == IF MapHas(headMap, participant.playerId)
                          THEN MapGet(headMap, participant.playerId) ELSE <<>>
             entry == IF MapHas(playerMap, opponent.playerId)
                      THEN MapGet(playerMap, opponent.playerId)
                      ELSE [displayName |-> opponent.displayName, outcomes |-> <<>>]
         IN  MapSet(headMap, participant.playerId,
                    MapSet(playerMap, opponent.playerId,
                           [entry EXCEPT !.outcomes =
                               Append(@, [playedAt |-> match.playedAt,
                                          isWin |-> opponent.isWinner])]))

\* the three nested loops that fill headMap
headAddPair(headMap, match, participant, opponent) ==
    IF participant.playerId = opponent.playerId THEN headMap
    ELSE LET playerMap == IF MapHas(headMap, participant.playerId)
                          THEN MapGet(headMap, participant.playerId) ELSE <<>>
             entry == IF MapHas(playerMap, opponent.playerId)
                      THEN LET old == MapGet(playerMap, opponent.playerId)
                           IN  IF old.displayName = "" /\ opponent.displayName # ""
                               THEN [old EXCEPT !.displayName = opponent.displayName]
                               ELSE old
                      ELSE [displayName |-> opponent.displayName, outcomes |-> <<>>]
         IN  MapSet(headMap, participant.playerId,
                    MapSet(playerMap, opponent.playerId,
                           [entry EXCEPT !.outcomes =
                               Append(@, [playedAt |-> match.playedAt,
                                          isWin |-> participant.isWinner])]))

RECURSIVE headOpponents(_, _, _, _)
headOpponents(headMap, match, participant, j) ==
    IF j > Len(match.participants) THEN headMap
    ELSE headOpponents(headAddPair(headMap, match, participant, match.participants[j]),
                       match, participant, j + 1)

\* an outer loop that pairs a participant only with those listed after it
RECURSIVE headParticipants_LaterOpponents(_, _, _)
headParticipants_LaterOpponents(headMap, match, i) ==
    IF i > Len(match.participants) THEN headMap
    ELSE headParticipants_LaterOpponents(
             headOpponents(headMap, match, match.participants[i], i + 1),
             match, i + 1)

RECURSIVE headParticipants(_, _, _)
headParticipants(headMap, match, i) ==
    IF i > Len(match.participants) THEN headMap
    ELSE headParticipants(headOpponents(headMap, match, match.participants[i], 1),
                          match, i + 1)

RECURSIVE headMatches(_, _, _)
headMatches(headMap, matchParticipants, m) ==
    IF m > Len(matchParticipants) THEN headMap
    ELSE headMatches(headParticipants(headMap, matchParticipants[m].val, 1),
                     matchParticipants, m + 1)

headMapOf(matchParticipants) == headMatches(<<>>, matchParticipants, 1)

----------------------------------------------------------------------------
(* page.tsx: the memoized tables of Home *)

\* a record that takes every game for a loss
headToHeadRecord_LossesAreGames(opponentId, data) ==
    LET sortedOutcomes ==
            StableSort(data.outcomes,
                       [i \in DOMAIN data.outcomes |-> [j \in DOMAIN data.outcomes |->
                           playedAtBefore(data.outcomes[i], data.outcomes[j])]])
        wins == Len(SelectSeq(sortedOutcomes, LAMBDA o : o.isWin))
        games == Len(sortedOutcomes)
        losses == games
        s == summarizeOutcomes(sortedOutcomes)
    IN  [playerId |-> opponentId,
         displayName |-> IF data.displayName # "" THEN data.displayName
                         ELSE IF MapHas(playerNames, opponentId)
                                 /\ MapGet(playerNames, opponentId) # ""
                         THEN MapGet(playerNames, opponentId)
                         ELSE "Unknown player",
         wins |-> wins,
         losses |-> losses,
         games |-> games,
         winPct |-> winPctOf(wins, games),
         streak |-> s.streak,
         last5 |-> s.last5,
         last10 |-> s.last10]

headToHeadRecord(opponentId, data) ==
    LET sortedOutcomes ==
            StableSort(data.outcomes,
                       [i \in DOMAIN data.outcomes |-> [j \in DOMAIN data.outcomes |->
                           playedAtBefore(data.outcomes[i], data.outcomes[j])]])
        wins == Len(SelectSeq(sortedOutcomes, LAMBDA o : o.isWin))
        games == Len(sortedOutcomes)
        losses == games - wins
        s == summarizeOutcomes(sortedOutcomes)
    IN  [playerId |-> opponentId,
         displayName |-> IF data.displayName # "" THEN data.displayName
                         ELSE IF MapHas(playerNames, opponentId)
                                 /\ MapGet(playerNames, opponentId) # ""
                         THEN MapGet(playerNames, opponentId)
                         ELSE "Unknown player",
         wins |-> wins,
         losses |-> losses,
         games |-> games,
         winPct |-> winPctOf(wins, games),
         streak |-> s.streak,
         last5 |-> s.last5,
         last10 |-> s.last10]

\* headToHeadStats for the effective head-to-head player
headToHeadStats(effectiveHeadPlayer) ==
    IF ~MapHas(headToHeadMap, effectiveHeadPlayer) THEN <<>>
    ELSE LET opponentMap == MapGet(headToHeadMap, effectiveHeadPlayer)
             records == [i \in DOMAIN opponentMap |->
                          headToHeadRecord(opponentMap[i].key, opponentMap[i].val)]
         IN  StableSort(records,
                        [i \in DOMAIN records |-> [j \in DOMAIN records |->
                            winLossBefore(records[i], records[j])]])

gameTypeRow(type, playerGameMap) ==
    LET entry == IF MapHas(playerGameMap, type) THEN MapGet(playerGameMap, type)
                 ELSE [wins |-> 0, losses |-> 0, games |-> 0, outcomes |-> <<>>]
        s == summarizeOutcomes(entry.outcomes)
    IN  [type |-> type,
         wins |-> entry.wins,
         losses |-> entry.losses,
         games |-> entry.games,
         winPct |-> winPctOf(entry.wins, entry.games),
         streak |-> s.streak,
         last5 |-> s.last5,
         last10 |-> s.last10]

\* a breakdown that lists only the categories the player has played
gameTypeStats_PlayedOnly(effectiveGameTypePlayer) ==
    IF ~MapHas(gameTypeMap, effectiveGameTypePlayer) THEN <<>>
    ELSE LET playerGameMap == MapGet(gameTypeMap, effectiveGameTypePlayer)
         IN  [i \in DOMAIN playerGameMap |->
                 gameTypeRow(playerGameMap[i].key, playerGameMap)]

\* a breakdown that takes a player without entry for one with an empty map
gameTypeStats_NoGuard(effectiveGameTypePlayer) ==
    LET playerGameMap == IF MapHas(gameTypeMap, effectiveGameTypePlayer)
                         THEN MapGet(gameTypeMap, effectiveGameTypePlayer) ELSE <<>>
    IN  [i \in DOMAIN GAME_TYPE_ORDER |-> gameTypeRow(GAME_TYPE_ORDER[i], playerGameMap)]

\* gameTypeStats for the effective game-type player
gameTypeStats(effectiveGameTypePlayer) ==
    IF ~MapHas(gameTypeMap, effectiveGameTypePlayer) THEN <<>>
    ELSE LET playerGameMap == MapGet(gameTypeMap, effectiveGameTypePlayer)
         IN  [i \in DOMAIN GAME_TYPE_ORDER |-> gameTypeRow(GAME_TYPE_ORDER[i], playerGameMap)]

----------------------------------------------------------------------------
(* page.tsx: what each leaderboard section of Home renders.  "skeleton" is *)
(* the loading table, "table" the table of records; a message is given by  *)
(* its text                                                                *)

headToHeadOptionsLength == Len(headToHeadMap)
gameTypeOptionsLength == Len(gameTypeMap)

overallSection ==
    IF loading THEN "skeleton"
    ELSE IF errorMessage # "" THEN errorMessage
    ELSE IF Len(winLossStats) = 0 THEN "No matches recorded yet."
    ELSE "table"

gameTypeSection(effectiveGameTypePlayer) ==
    IF loading THEN "skeleton"
    ELSE IF gameTypeOptionsLength = 0 THEN "No game type records available yet."
    ELSE IF Len(gameTypeStats(effectiveGameTypePlayer)) = 0
    THEN "No matches found for the selected player."
    ELSE "table"

threeDartSection ==
    IF loading THEN "skeleton"
    ELSE IF Len(threeDartStats) = 0 THEN "No 501 or 301 matches recorded yet."
    ELSE "table"

mprSection ==
    IF loading THEN "skeleton"
    ELSE IF Len(mprStats) = 0 THEN "No Cricket matches recorded yet."
    ELSE "table"

headToHeadSection(effectiveHeadPlayer) ==
    IF loading THEN "skeleton"
    ELSE IF headToHeadOptionsLength = 0 THEN "No head-to-head data available yet."
    ELSE IF Len(headToHeadStats(effectiveHeadPlayer)) = 0
    THEN "No head-to-head matches found for the selected player."
    ELSE "table"

----------------------------------------------------------------------------
(* page.tsx: the player selects of Home *)

\* the names the selects can show, as localeCompare orders them
NameOrder == <<"Ace (Al)", "Bo", "Cy", "Unknown player">>
NameRank(name) == CHOOSE i \in DOMAIN NameOrder : NameOrder[i] = name

\* a.localeCompare(b): negative, zero or positive
localeCompare(a, b) == NameRank(a) - NameRank(b)

\* the options of a select: the keys of the map with their names, by name
optionsOf(map) ==
    LET mapped == [i \in DOMAIN map |->
                      [id |-> map[i].key,
                       name |-> IF MapHas(playerNames, map[i].key)
                                      /\ MapGet(playerNames, map[i].key) # ""
                                THEN MapGet(playerNames, map[i].key)
                                ELSE "Unknown player"]]
    IN  StableSort(mapped,
                   [i \in DOMAIN mapped |-> [j \in DOMAIN mapped |->
                       localeCompare(mapped[i].name, mapped[j].name) < 0]])

headToHeadOptions == optionsOf(headToHeadMap)

\* a choice that puts the signed-in user before the selection
effectiveHeadPlayer_UserFirst ==
    IF homeUser # "" /\ MapHas(headToHeadMap, homeUser) THEN homeUser
    ELSE IF selectedHeadPlayer # "" /\ MapHas(headToHeadMap, selectedHeadPlayer)
    THEN selectedHeadPlayer
    ELSE IF Len(headToHeadOptions) > 0 THEN headToHeadOptions[1].id ELSE ""

effectiveHeadPlayer ==
    IF selectedHeadPlayer # "" /\ MapHas(headToHeadMap, selectedHeadPlayer)
    THEN selectedHeadPlayer
    ELSE IF homeUser # "" /\ MapHas(headToHeadMap, homeUser) THEN homeUser
    ELSE IF Len(headToHeadOptions) > 0 THEN headToHeadOptions[1].id ELSE ""

gameTypeOptions == optionsOf(gameTypeMap)

effectiveGameTypePlayer ==
    IF selectedGameTypePlayer # "" /\ MapHas(gameTypeMap, selectedGameTypePlayer)
    THEN selectedGameTypePlayer
    ELSE IF homeUser # "" /\ MapHas(gameTypeMap, homeUser) THEN homeUser
    ELSE IF Len(gameTypeOptions) > 0 THEN gameTypeOptions[1].id ELSE ""

----------------------------------------------------------------------------
(* profiles/[id]/page.tsx: loadProfileAndStatsAndMatches *)

RecentLimit == 5     \* .limit(5)

\* the running totals before the `for (const row of rows)` loop
emptyTotals ==
    [games |-> 0, wins |-> 0, losses |-> 0, outcomes |-> <<>>,
     threeTotal |-> 0, threeGames |-> 0, mprTotal |-> 0, mprGames |-> 0]

\* a tally that does not look at the game type
tallyScore_AnyGame(total, games, qualifies, score) ==
    IF score # NoScore
    THEN [total |-> total + score, games |-> games + 1]
    ELSE [total |-> total, games |-> games]

\* if (qualifies && typeof score === 'number') { total += score; games += 1 }
tallyScore(total, games, qualifies, score) ==
    IF qualifies /\ score # NoScore
    THEN [total |-> total + score, games |-> games + 1]
    ELSE [total |-> total, games |-> games]

\* one pass of the loop
tallyStatsRow(acc, row) ==
    LET gameType == row.matches.game_type
        playedAt == IF row.matches.played_at = NoPlayedAt THEN Epoch
                    ELSE row.matches.played_at
        isCricket == gameType = "Cricket"
        isX01Game == gameType = "501" \/ gameType = "301"
        score == row.score
        isWin == row.is_winner = TRUE
        three == tallyScore(acc.threeTotal, acc.threeGames, isX01Game, score)
        mpr == tallyScore(acc.mprTotal, acc.mprGames, isCricket, score)
    IN  [games |-> acc.games + 1,
         wins |-> IF isWin THEN acc.wins + 1 ELSE acc.wins,
         losses |-> IF isWin THEN acc.losses ELSE acc.losses + 1,
         outcomes |-> Append(acc.outcomes, [playedAt |-> playedAt, isWin |-> isWin]),
         threeTotal |-> three.total,
         threeGames |-> three.games,
         mprTotal |-> mpr.total,
         mprGames |-> mpr.games]

RECURSIVE tallyStatsRows(_, _)
tallyStatsRows(acc, rows) ==
    IF rows = <<>> THEN acc
    ELSE tallyStatsRows(tallyStatsRow(acc, Head(rows)), Tail(rows))

\* the streak loop of the player page
RECURSIVE profileStreakLoop(_, _, _, _)
profileStreakLoop(outcomes, i, streakType, streakCount) ==
    IF i < 1 THEN [type |-> streakType, count |-> streakCount]
    ELSE LET res == IF outcomes[i].isWin THEN "W" ELSE "L"
         IN  IF streakType = ""
             THEN profileStreakLoop(outcomes, i - 1, res, 1)
             ELSE IF streakType = res
             THEN profileStreakLoop(outcomes, i - 1, streakType, streakCount + 1)
             ELSE [type |-> streakType, count |-> streakCount]

\* a streak counted from the oldest game on
profileStreak_Oldest(outcomes) ==
    LET oldestLast == [i \in DOMAIN outcomes |-> outcomes[Len(outcomes) + 1 - i]]
        s == profileStreakLoop(oldestLast, Len(outcomes), "", 0)
    IN  IF s.type # "" THEN s.type \o ToString(s.count) ELSE ""

profileStreak(outcomes) ==
    LET s == profileStreakLoop(outcomes, Len(outcomes), "", 0)
    IN  IF s.type # "" THEN s.type \o ToString(s.count) ELSE ""

profileLast5(outcomes) ==
    LET recentOutcomes == SliceLast(outcomes, 5)
        wins5 == Len(SelectSeq(recentOutcomes, LAMBDA o : o.isWin))
        losses5 == Len(recentOutcomes) - wins5
    IN  ToString(wins5) \o "-" \o ToString(losses5)

\* the object handed to setStats, computed from the rows of the stats fetch
\* (matchesData ?? [] : an answer without data is the empty list)
playerStatsSummary(rows) ==
    LET t == tallyStatsRows(emptyTotals, rows)
        outcomes == StableSort(t.outcomes,
                               [i \in DOMAIN t.outcomes |-> [j \in DOMAIN t.outcomes |->
                                   playedAtBefore(t.outcomes[i], t.outcomes[j])]])
        has == Len(t.outcomes) > 0
    IN  [games |-> t.games,
         wins |-> t.wins,
         losses |-> t.losses,
         winPct |-> winPctOf(t.wins, t.games),
         streak |-> IF has THEN profileStreak(outcomes) ELSE "",
         last5 |-> IF has THEN profileLast5(outcomes) ELSE "",
         threeAvg |-> IF t.threeGames > 0 THEN Frac(t.threeTotal, t.threeGames)
                      ELSE Frac(0, 1),
         threeGames |-> t.threeGames,
         mprAvg |-> IF t.mprGames > 0 THEN Frac(t.mprTotal, t.mprGames)
                    ELSE Frac(0, 1),
         mprGames |-> t.mprGames]

----------------------------------------------------------------------------
(* lib/matchState.js and matches/layout.tsx: the match list of MatchesPage. *)
(* A match of the list is given by its rank in the store, newest first      *)

PAGE_SIZE == 10

\* a reset that leaves the pagination alone
clearMatchesState_KeepsPages ==
    [matches |-> <<>>, profiles |-> <<>>,
     currentPage |-> currentPage, totalPages |-> totalPages]

\* clearMatchesState: the values its four setters are called with
clearMatchesState ==
    [matches |-> <<>>, profiles |-> <<>>, currentPage |-> 1, totalPages |-> 1]

\* .order('played_at', { ascending: false }).range(from, to) over count matches
matchesRange(page, count) ==
    LET from == (page - 1) * PAGE_SIZE
        to == from + PAGE_SIZE - 1
        last == IF to + 1 < count THEN to + 1 ELSE count
    IN  [k \in 1..(IF last > from THEN last - from ELSE 0) |-> from + k]

\* Math.max(1, Math.ceil(count / PAGE_SIZE))
pagesOf(count) ==
    LET ceil == (count + PAGE_SIZE - 1) \div PAGE_SIZE
    IN  IF ceil > 1 THEN ceil ELSE 1

\* reloadMatches(page) after its await: the store holds count matches;
\* counted is "typeof count === 'number'"
reloadMatchesAnswered(page, count, counted) ==
    /\ matches' = matchesRange(page, count)
    /\ totalPages' = IF counted THEN pagesOf(count) ELSE totalPages
    /\ currentPage' = page

----------------------------------------------------------------------------
(* The store: profiles, matches and the match_players rows joined to them *)

Players == {"p1", "p2", "p3"}

Profiles ==
    [p \in Players |->
        CASE p = "p1" -> [display_name |-> "Ace", first_name |-> "Al"]
          [] p = "p2" -> [display_name |-> "", first_name |-> "Bo"]
          [] p = "p3" -> [display_name |-> "Cy", first_name |-> ""]]

\* one row of the select: match_players joined to profiles and matches
JoinedRow(player, is_winner, score, match) ==
    [player_id |-> player,
     is_winner |-> is_winner,
     score |-> score,
     match_id |-> match.id,
     profiles |-> Profiles[player],
     matches |-> [game_type |-> match.game_type, played_at |-> match.played_at]]

\* the match form refuses a match that lists a player twice
Plays(rows, player, matchId) ==
    \E i \in DOMAIN rows : rows[i].player_id = player /\ rows[i].match_id = matchId

\* matches of the league feed
LeagueMatches ==
    {[id |-> "m1", game_type |-> "Cricket", played_at |-> 2],
     [id |-> "m2", game_type |-> "501", played_at |-> 1]}

\* matches of the scored feed
ScoredMatches ==
    {[id |-> "s1", game_type |-> "501", played_at |-> 1],
     [id |-> "s2", game_type |-> "301", played_at |-> 2],
     [id |-> "s3", game_type |-> "Cricket", played_at |-> 3]}
ScoredPlayers == {"p1", "p2"}
Scores == {NoScore, 1, 3}

\* the k-th game of one player's season, k counting in fetch order.
\* "desc": 501 only, fetched newest first.
\* "mixed": the game types in turn, played at 6, 4, 2, 7, 5, 3, 1, 6, 4, ...
\*          (out of order, and games of the same instant)
Seasons == {"desc", "mixed"}
SeasonMatch(season, k) ==
    [id |-> season \o ToString(k),
     game_type |-> CASE season = "desc" -> "501"
                     [] season = "mixed" ->
                          <<"Cricket", "501", "301", "Killer">>[(k % 4) + 1],
     played_at |-> CASE season = "desc" -> 50 - k
                     [] season = "mixed" -> ((k * 5) % 7) + 1]

\* matches of the typed feed: every category, an unlisted game and a match
\* without a game type
TypedMatches ==
    {[id |-> "t1", game_type |-> "501", played_at |-> 1],
     [id |-> "t2", game_type |-> "301", played_at |-> 2],
     [id |-> "t3", game_type |-> "Cricket", played_at |-> 3],
     [id |-> "t4", game_type |-> "Killer", played_at |-> 4],
     [id |-> "t5", game_type |-> "", played_at |-> 5]}
TypedScores == {1, 3}

\* matches of the two-page feed: a 501 and a Cricket match of the same instant
\* after a match of an unlisted game
BothPagesMatches ==
    {[id |-> "s1", game_type |-> "Killer", played_at |-> 1],
     [id |-> "s2", game_type |-> "501", played_at |-> 2],
     [id |-> "s3", game_type |-> "Cricket", played_at |-> 2]}
BothPagesOpponent == "p2"
BothPagesScores == {NoScore, 3}

\* matches of the raw feed: two 501 matches of the same instant
RawMatches ==
    {[id |-> "r1", game_type |-> "501", played_at |-> 5],
     [id |-> "r2", game_type |-> "501", played_at |-> 5]}
RawPlayers == {"p1", "p2"}

\* a row whose player_id is null: the join finds no profile
OrphanRow(is_winner, score, match) ==
    [player_id |-> "",
     is_winner |-> is_winner,
     score |-> score,
     match_id |-> match.id,
     profiles |-> [display_name |-> "", first_name |-> ""],
     matches |-> [game_type |-> match.game_type, played_at |-> match.played_at]]

\* what the matches page is answered with: the number of stored matches, the
\* profiles ordered by display_name, the signed-in user, an error's message
MatchCounts == {0, 3, 12, MaxMatchCount}
StoredProfiles == <<"p2", "p1", "p3">>
SignedInUser == "u1"
FetchErrorText == "fetch failed"

\* the id of the route /profiles/[id]
ProfileId == "p1"

\* .eq('player_id', id)
playerRows(id) == SelectSeq(match_players, LAMBDA r : r.player_id = id)

\* .order('played_at', { ascending: false }).limit(5) over the matches the
\* player took part in (matches of the same instant in stored order)
recentMatchesOf(id) ==
    LET rows == playerRows(id)
        newestFirst == StableSort(rows,
                                  [i \in DOMAIN rows |-> [j \in DOMAIN rows |->
                                      rows[i].matches.played_at > rows[j].matches.played_at]])
        limited == IF Len(newestFirst) <= RecentLimit THEN newestFirst
                   ELSE SubSeq(newestFirst, 1, RecentLimit)
    IN  [k \in DOMAIN limited |-> limited[k].match_id]

----------------------------------------------------------------------------
(* matches/layout.tsx: the match form, handleSaveMatch and the two tables it *)
(* writes.  A stored match is [game_type, created_by] at the index of its id; *)
(* played_at is the instant of the insert, so newest first is highest id      *)
(* first.  In this part a match of the list carries the fields the form      *)
(* reads: id, game_type, created_by and its match_players rows.              *)

\* the numbers typed into the stat inputs, and the options picked in the
\* number-of-players and game type selects
StatValues == {60}
NumPlayersOptions == 2..MaxNumPlayers
GameTypeOptions == {"501", "Other"}

emptyEntry == [playerId |-> "", stat |-> ""]

\* playerEntries.slice(0, n)
activeEntries(entries, n) ==
    SubSeq(entries, 1, IF n < Len(entries) THEN n ELSE Len(entries))

\* the updater of ensurePlayerEntriesSize
ensurePlayerEntriesSize(prev, targetSize) ==
    IF Len(prev) < targetSize
    THEN prev \o [i \in 1..(targetSize - Len(prev)) |-> emptyEntry]
    ELSE IF Len(prev) > targetSize THEN SubSeq(prev, 1, targetSize)
    ELSE prev

\* a winner that stays whatever the players shown are
stillPresentWinner_Kept(entries, newNum, prevWinner) == prevWinner

\* the updater of handleNumPlayersChange: the winner survives if one of the
\* first newNum entries holds it
stillPresentWinner(entries, newNum, prevWinner) ==
    LET shown == activeEntries(entries, newNum)
    IN  IF \E i \in DOMAIN shown : shown[i].playerId = prevWinner
        THEN prevWinner ELSE ""

\* the updater of handlePlayerChange: the winner follows the entry it sat in
followedWinner(entries, index, playerId, prevWinner) ==
    IF prevWinner # "" /\ index \in DOMAIN entries
          /\ entries[index].playerId = prevWinner
    THEN playerId ELSE prevWinner

\* the values resetForm sets
resetForm ==
    [gameType |-> "501", numPlayers |-> 2, playerEntries |-> <<emptyEntry, emptyEntry>>,
     winnerPlayerId |-> "", editingMatchId |-> 0]

\* parseFloat / Number of a stat string that is empty or the decimal form of
\* an integer: <<>> is NaN
parseFloat(statStr) ==
    IF \E n \in StatValues : ToString(n) = statStr
    THEN <<CHOOSE n \in StatValues : ToString(n) = statStr>> ELSE <<>>
Number(statStr) == IF statStr = "" THEN <<0>> ELSE parseFloat(statStr)

\* handleSaveMatch, the stat of one player: the message it stops with, "" if none
statError(type, statStr) ==
    IF type = "Other"
    THEN LET statNum == Number(statStr)
         IN  IF statNum = <<>>
             THEN "Scores for Other game types must be whole numbers (e.g., 250)."
             ELSE IF statNum[1] < 1 \/ statNum[1] > 9999
             THEN "Scores for Other game types must be between 1 and 9999."
             ELSE ""
    ELSE LET statNum == parseFloat(statStr)
             \* twice the cap: 167, 150.5, 9
             maxStat2 == IF type = "501" THEN 334
                         ELSE IF type = "301" THEN 301
                         ELSE IF type = "Cricket" THEN 18 ELSE 0
             capped == type \in {"501", "301", "Cricket"}
         IN  IF statNum = <<>>
             THEN "Stats must be valid numbers (e.g., 101.85, 5.23) for all players."
             ELSE IF capped /\ statNum[1] < 0 THEN "Stats cannot be negative."
             ELSE IF capped /\ 2 * statNum[1] > maxStat2
             THEN "Put in the actual score, you lying sack of shit"
             ELSE ""

parsedStat(type, statStr) ==
    IF type = "Other" THEN Number(statStr)[1] ELSE parseFloat(statStr)[1]

\* handleSaveMatch up to its try: the message it returns with, "" if it goes on
saveError(signedIn, type, entries, n, winner) ==
    LET activePlayers == activeEntries(entries, n)
        ids == [i \in DOMAIN activePlayers |-> activePlayers[i].playerId]
        statErrors == SelectSeq([i \in DOMAIN activePlayers |->
                                    statError(type, activePlayers[i].stat)],
                                LAMBDA m : m # "")
    IN  IF signedIn = "" THEN "You must be signed in to add or edit a match."
        ELSE IF Len(activePlayers) < 2 THEN "Please select at least 2 players."
        ELSE IF \E i \in DOMAIN ids : ids[i] = "" THEN "Please choose all players."
        ELSE IF Cardinality({ids[i] : i \in DOMAIN ids}) # Len(ids)
        THEN "Players must be different."
        ELSE IF winner = "" THEN "Please select the winner."
        ELSE IF ~\E i \in DOMAIN ids : ids[i] = winner
        THEN "Winner must be one of the selected players."
        ELSE IF Len(statErrors) > 0 THEN statErrors[1]
        ELSE ""

\* a payload that flags every player
matchPlayersPayload_AllWinners(type, entries, n, winner) ==
    LET activePlayers == activeEntries(entries, n)
    IN  [i \in DOMAIN activePlayers |->
            [player_id |-> activePlayers[i].playerId,
             score |-> parsedStat(type, activePlayers[i].stat),
             is_winner |-> TRUE]]

\* matchPlayersPayload, without the match id
matchPlayersPayload(type, entries, n, winner) ==
    LET activePlayers == activeEntries(entries, n)
    IN  [i \in DOMAIN activePlayers |->
            [player_id |-> activePlayers[i].playerId,
             score |-> parsedStat(type, activePlayers[i].stat),
             is_winner |-> activePlayers[i].playerId = winner]]

\* the match_players rows of a match, in table order
rowsOfMatch(table, id) == SelectSeq(table, LAMBDA r : r.match_id = id)

\* the select of reloadMatches over the two tables
listedMatches(page) ==
    LET count == Len(storedMatches)
        ranks == matchesRange(page, count)
    IN  [k \in DOMAIN ranks |->
            LET id == count - ranks[k] + 1
            IN  [id |-> id,
                 game_type |-> storedMatches[id].game_type,
                 created_by |-> storedMatches[id].created_by,
                 match_players |-> rowsOfMatch(storedMatchPlayers, id)]]

\* handleEditClick: the message it returns with, "" if it fills the form
editError(signedIn, match) ==
    IF signedIn = "" THEN "You must be signed in to edit matches."
    ELSE IF match.created_by # signedIn THEN "You can only edit matches you created."
    ELSE IF Len(match.match_players) < 2
    THEN "This match does not have enough player data to edit."
    ELSE ""

\* handleEditClick: the form it fills in
editedForm(match) ==
    LET players == match.match_players
        clampedCount == IF Len(players) > 10 THEN 10
                        ELSE IF Len(players) < 2 THEN 2 ELSE Len(players)
        taken == activeEntries(players, clampedCount)
        entries == [i \in DOMAIN taken |->
                       [playerId |-> taken[i].player_id,
                        stat |-> IF taken[i].score # NoScore
                                 THEN ToString(taken[i].score) ELSE ""]]
        winners == SelectSeq(players, LAMBDA mp : mp.is_winner)
    IN  [gameType |-> IF match.game_type # "" THEN match.game_type ELSE "501",
         numPlayers |-> clampedCount,
         playerEntries |-> ensurePlayerEntriesSize(entries, clampedCount),
         winnerPlayerId |-> IF Len(winners) > 0 THEN winners[1].player_id ELSE "",
         editingMatchId |-> match.id]

----------------------------------------------------------------------------
(* The account deletion endpoint (POST).  The authorization header is kept  *)
(* as <<scheme with its blank, credential>>, <<>> when the header is absent *)

Accounts == {"u1", "u2"}

\* the headers requests arrive with
AuthHeaders ==
    {<<>>, <<"Bearer ", "">>, <<"Basic ", "token-u1">>, <<"Bearer ", "token-stale">>,
     <<"Bearer ", "token-u1">>, <<"Bearer ", "token-u2">>}

\* authHeader.startsWith('Bearer ') ? authHeader.replace('Bearer ', '') : null
bearerToken(authHeader) ==
    IF authHeader # <<>> /\ authHeader[1] = "Bearer " THEN authHeader[2] ELSE ""

\* supabaseAdmin.auth.getUser(token): the id of the user, "" if none
getUser(token, users) ==
    IF \E u \in users : token = "token-" \o u
    THEN CHOOSE u \in users : token = "token-" \o u
    ELSE ""

response(request, status, body) ==
    [authHeader |-> request.authHeader, userId |-> request.userId,
     status |-> status, body |-> body]

----------------------------------------------------------------------------
(* profiles/[id]/page.tsx: the All Matches tab.  The player of the page     *)
(* played MaxHistory matches, match k at instant k against p2               *)

HistoryTypes == <<"501", "Cricket", "", "301">>

historyMatch(k) ==
    [id |-> k,
     game_type |-> HistoryTypes[((k - 1) % Len(HistoryTypes)) + 1],
     match_players |-> <<[player_id |-> "p2", is_winner |-> k % 3 = 0],
                         [player_id |-> ProfileId, is_winner |-> k % 3 # 0]>>]

\* the options picked in the two filter selects
GameTypeFilters == {"all", "501"}
ResultFilters == {"all", "wins", "losses"}

\* the matches the query of loadAllMatches selects, newest first:
\* .eq('game_type', ...) and .eq('match_players.is_winner', ...) on the row of
\* the player, .order('played_at', { ascending: false })
selectedHistory(gameTypeFilterOf, resultFilterOf) ==
    LET newestFirst == [k \in 1..MaxHistory |-> historyMatch(MaxHistory + 1 - k)]
        selected(m) ==
            /\ gameTypeFilterOf # "all" => m.game_type = gameTypeFilterOf
            /\ resultFilterOf # "all" =>
                  \E i \in DOMAIN m.match_players :
                     /\ m.match_players[i].player_id = ProfileId
                     /\ m.match_players[i].is_winner = (resultFilterOf = "wins")
    IN  SelectSeq(newestFirst, selected)

\* what the query answers a call with: .range(from, to) and the exact count
allMatchesAnswer(request) ==
    LET all == selectedHistory(request.gameTypeFilter, request.resultFilter)
        from == (request.page - 1) * PAGE_SIZE
        to == from + PAGE_SIZE - 1
        last == IF to + 1 < Len(all) THEN to + 1 ELSE Len(all)
    IN  [data |-> IF last > from THEN SubSeq(all, from + 1, last) ELSE <<>>,
         count |-> Len(all)]

\* count ? Math.max(1, Math.ceil(count / PAGE_SIZE)) : 1
allMatchesPagesOf(count) == IF count # 0 THEN pagesOf(count) ELSE 1

\* a filter that looks at the game type only
applyMatchFilters_TypeOnly(list, gameTypeFilterOf, resultFilterOf) ==
    SelectSeq(list, LAMBDA match :
        gameTypeFilterOf = "all" \/ match.game_type = gameTypeFilterOf)

\* applyMatchFilters under the filters of the render
applyMatchFilters(list, gameTypeFilterOf, resultFilterOf) ==
    LET matchesGameType(match) ==
            gameTypeFilterOf = "all" \/ match.game_type = gameTypeFilterOf
        entries(match) ==
            SelectSeq(match.match_players, LAMBDA mp : mp.player_id = ProfileId)
        \* playerEntry?.is_winner ?? null, compared with true or false
        matchesResult(match) ==
            /\ Len(entries(match)) > 0
            /\ entries(match)[1].is_winner = (resultFilterOf = "wins")
    IN  SelectSeq(list, LAMBDA match :
            IF resultFilterOf = "all" THEN matchesGameType(match)
            ELSE matchesGameType(match) /\ matchesResult(match))

----------------------------------------------------------------------------
(* State machine *)

InitHome ==
    /\ match_players = <<>>
    /\ loading = TRUE
    /\ errorMessage = ""
    /\ winLossStats = <<>>
    /\ threeDartStats = <<>>
    /\ mprStats = <<>>
    /\ headToHeadMap = <<>>
    /\ gameTypeMap = <<>>
    /\ playerNames = <<>>
    /\ loadRuns = <<>>

\* ProfilePage mounted with an id: the effect has started, the profile is awaited
InitProfilePage ==
    /\ profilePc = "profile"
    /\ profile = ""
    /\ stats = <<>>
    /\ recentMatches = <<>>
    /\ profileLoading = TRUE
    /\ profileErrorMessage = ""

\* MatchesPage mounted: the effect has started, the user lookup is awaited
InitMatchesPage ==
    /\ matchesPc = <<"user">>
    /\ clearedFrom = <<>>
    /\ pageRequests = {}
    /\ user = ""
    /\ matchesLoading = TRUE
    /\ profiles = <<>>
    /\ matches = <<>>
    /\ matchesErrorMessage = ""
    /\ currentPage = 1
    /\ totalPages = 1

\* the match form as useState leaves it; no save in flight
InitMatchForm ==
    /\ formGameType = "501"
    /\ numPlayers = 2
    /\ playerEntries = <<emptyEntry, emptyEntry>>
    /\ winnerPlayerId = ""
    /\ editingMatchId = 0
    /\ saveCalls = <<>>

\* the store holds one match, saved earlier by another user
InitStore ==
    /\ storedMatches = <<[game_type |-> "Cricket", created_by |-> "u2"]>>
    /\ storedMatchPlayers =
          <<[match_id |-> 1, player_id |-> "p1", score |-> 3, is_winner |-> TRUE],
            [match_id |-> 1, player_id |-> "p2", score |-> 2, is_winner |-> FALSE]>>

\* the endpoint is configured; every account has its profile row and its
\* identity record; no request yet
InitAccounts ==
    /\ supabaseAdmin = TRUE
    /\ storedProfiles = Accounts
    /\ authUsers = Accounts
    /\ deleteRequests = <<>>
    /\ deleteAnswers = <<>>

\* the match history of ProfilePage as useState leaves it: the Last 5
\* Matches tab, no call of loadAllMatches yet
InitAllMatches ==
    /\ activeTab = "recent"
    /\ allMatchesPage = 1
    /\ allMatchesTotalPages = 1
    /\ gameTypeFilter = "all"
    /\ resultFilter = "all"
    /\ allMatches = <<>>
    /\ allMatchesLoading = FALSE
    /\ allMatchesError = ""
    /\ visibleAllMatches = <<>>
    /\ allMatchesRequests = <<>>
    /\ latestRequest = <<>>

InitSelection ==
    /\ authLoading = TRUE
    /\ homeUser = ""
    /\ selectedHeadPlayer = ""
    /\ selectedGameTypePlayer = ""

Init ==
    /\ InitHome /\ InitProfilePage /\ InitMatchesPage /\ InitMatchForm /\ InitStore
    /\ InitAccounts /\ InitAllMatches /\ InitSelection

\* the store also holds a three-player match the signed-in user saved
InitForm ==
    /\ InitHome /\ InitProfilePage /\ InitMatchesPage /\ InitMatchForm /\ InitAccounts
    /\ InitAllMatches /\ InitSelection
    /\ storedMatches = <<[game_type |-> "Cricket", created_by |-> "u2"],
                         [game_type |-> "", created_by |-> SignedInUser]>>
    /\ storedMatchPlayers =
          <<[match_id |-> 1, player_id |-> "p1", score |-> 3, is_winner |-> TRUE],
            [match_id |-> 1, player_id |-> "p2", score |-> 2, is_winner |-> FALSE],
            [match_id |-> 2, player_id |-> "p1", score |-> 60, is_winner |-> FALSE],
            [match_id |-> 2, player_id |-> "p2", score |-> NoScore, is_winner |-> FALSE],
            [match_id |-> 2, player_id |-> "p3", score |-> 60, is_winner |-> TRUE]>>

pageState == <<loading, errorMessage, winLossStats, threeDartStats, mprStats,
               headToHeadMap, gameTypeMap, playerNames>>

\* a match_players row is stored before the page's fetch is answered
StoreRow(row) ==
    /\ loading
    /\ ~Plays(match_players, row.player_id, row.match_id)
    /\ match_players' = Append(match_players, row)
    /\ UNCHANGED <<pageState, loadRuns, profilePageVars, matchesPageVars, otherVars>>

\* league feed: any player, either match, won or lost
InsertRow ==
    /\ Len(match_players) < MaxRows
    /\ \E p \in Players, m \in LeagueMatches, w \in BOOLEAN :
          StoreRow(JoinedRow(p, w, 2, m))

\* scored feed: the score varies and may be absent
InsertScoredRow ==
    /\ Len(match_players) < MaxScoredRows
    /\ \E p \in ScoredPlayers, m \in ScoredMatches, sc \in Scores :
          StoreRow(JoinedRow(p, p = "p1", sc, m))

\* season feed: the next game of p1's season
InsertSeasonRow ==
    /\ Len(match_players) < MaxGames
    /\ \E season \in Seasons, w \in BOOLEAN :
          /\ match_players # <<>> =>
                match_players[1].match_id = SeasonMatch(season, 1).id
          /\ StoreRow(JoinedRow("p1", w, 2, SeasonMatch(season, Len(match_players) + 1)))

\* loadStats from its await on: the fetch answered with rows
loadStatsAnswered ==
    /\ loading
    /\ LET maps == processRows(emptyMaps, match_players)
       IN  /\ winLossStats' = wlListOf(maps)
           /\ threeDartStats' = averageListOf(maps.threeMap)
           /\ mprStats' = averageListOf(maps.mprMap)
           /\ headToHeadMap' = headMapOf(maps.matchParticipants)
           /\ gameTypeMap' = maps.perGameTypeMap
           /\ playerNames' = maps.playerNameMap
    /\ errorMessage' = ""
    /\ loading' = FALSE
    /\ UNCHANGED match_players

\* loadStats, the fetch answered with rows
LoadStats ==
    /\ loadStatsAnswered
    /\ UNCHANGED <<loadRuns, profilePageVars, matchesPageVars, otherVars>>

\* loadStats, the fetch answered with an error
LoadStatsError ==
    /\ loading
    /\ errorMessage' = "Error loading leaderboard."
    /\ loading' = FALSE
    /\ UNCHANGED <<match_players, winLossStats, threeDartStats, mprStats,
                   headToHeadMap, gameTypeMap, playerNames, loadRuns>>
    /\ UNCHANGED <<profilePageVars, matchesPageVars, otherVars>>

Next == InsertRow \/ LoadStats \/ LoadStatsError
Spec == Init /\ [][Next]_vars

NextScored == InsertScoredRow \/ LoadStats \/ LoadStatsError
SpecScored == Init /\ [][NextScored]_vars

NextSeason == InsertSeasonRow \/ LoadStats \/ LoadStatsError
SpecSeason == Init /\ [][NextSeason]_vars

\* typed feed: p1 wins a game of any type with a score, stored before either
\* page's fetches are answered
InsertTypedRow ==
    /\ Len(match_players) < MaxTypedRows
    /\ profilePc = "profile"
    /\ \E m \in TypedMatches, sc \in TypedScores :
          StoreRow(JoinedRow(ProfileId, TRUE, sc, m))

\* loadProfileAndStatsAndMatches, first await: the profile arrives
ProfileFetched ==
    /\ profilePc = "profile"
    /\ profile' = ProfileId
    /\ profilePc' = "stats"
    /\ UNCHANGED <<stats, recentMatches, profileLoading, profileErrorMessage>>
    /\ UNCHANGED <<homeVars, matchesPageVars, otherVars>>

\* first await: profileError || !profileData
ProfileFetchError ==
    /\ profilePc = "profile"
    /\ profileErrorMessage' = "Could not load profile."
    /\ profile' = ""
    /\ stats' = <<>>
    /\ recentMatches' = <<>>
    /\ profileLoading' = FALSE
    /\ profilePc' = "done"
    /\ UNCHANGED <<homeVars, matchesPageVars, otherVars>>

\* second await: the player's rows arrive; the totals are stored
StatsFetched ==
    /\ profilePc = "stats"
    /\ stats' = <<playerStatsSummary(playerRows(ProfileId))>>
    /\ profilePc' = "recent"
    /\ UNCHANGED <<profile, recentMatches, profileLoading, profileErrorMessage>>
    /\ UNCHANGED <<homeVars, matchesPageVars, otherVars>>

\* second await: matchesError.  setStats(null) is followed, in the same
\* continuation, by the loop over (matchesData ?? []) and setStats({...})
StatsFetchError ==
    /\ profilePc = "stats"
    /\ profileErrorMessage' = "Could not load player stats."
    /\ stats' = <<playerStatsSummary(<<>>)>>
    /\ profilePc' = "recent"
    /\ UNCHANGED <<profile, recentMatches, profileLoading>>
    /\ UNCHANGED <<homeVars, matchesPageVars, otherVars>>

\* third await: the last matches arrive
RecentFetched ==
    /\ profilePc = "recent"
    /\ recentMatches' = recentMatchesOf(ProfileId)
    /\ profileLoading' = FALSE
    /\ profilePc' = "done"
    /\ UNCHANGED <<profile, stats, profileErrorMessage>>
    /\ UNCHANGED <<homeVars, matchesPageVars, otherVars>>

\* third await: matchesDetailError
RecentFetchError ==
    /\ profilePc = "recent"
    /\ recentMatches' = <<>>
    /\ profileLoading' = FALSE
    /\ profilePc' = "done"
    /\ UNCHANGED <<profile, stats, profileErrorMessage>>
    /\ UNCHANGED <<homeVars, matchesPageVars, otherVars>>

\* rerun feed: the rows of the league feed, stored while a run is awaited
InsertRerunRow ==
    /\ Len(match_players) < MaxRerunRows
    /\ \E p \in Players, m \in LeagueMatches, w \in BOOLEAN :
          StoreRow(JoinedRow(p, w, 2, m))

\* the effect runs loadStats again on the mounted page, up to its await
RunLoadStats ==
    /\ ~loading
    /\ Len(loadRuns) < MaxRuns
    /\ loading' = TRUE
    /\ errorMessage' = ""
    /\ UNCHANGED <<match_players, winLossStats, threeDartStats, mprStats,
                   headToHeadMap, gameTypeMap, playerNames, loadRuns>>
    /\ UNCHANGED <<profilePageVars, matchesPageVars, otherVars>>

\* loadStats, the fetch answered with rows; the run is entered in the history
LoadStatsRecorded ==
    /\ loadStatsAnswered
    /\ loadRuns' = Append(loadRuns,
                          [rows |-> match_players,
                           tables |-> <<winLossStats', threeDartStats', mprStats',
                                        headToHeadMap', gameTypeMap', playerNames'>>])
    /\ UNCHANGED <<profilePageVars, matchesPageVars, otherVars>>

NextRerun == InsertRerunRow \/ RunLoadStats \/ LoadStatsRecorded \/ LoadStatsError
SpecRerun == Init /\ [][NextRerun]_vars

\* raw feed: rows of same-instant matches, some without a player id
InsertRawRow ==
    /\ Len(match_players) < MaxRawRows
    /\ \E m \in RawMatches, w \in BOOLEAN :
          \/ \E p \in RawPlayers : StoreRow(JoinedRow(p, w, 2, m))
          \/ StoreRow(OrphanRow(w, 2, m))

NextRaw == InsertRawRow \/ LoadStats \/ LoadStatsError
SpecRaw == Init /\ [][NextRaw]_vars

\* mixed feed: the next game of p1's mixed season alone
InsertMixedRow ==
    /\ Len(match_players) < MaxGames
    /\ \E w \in BOOLEAN :
          StoreRow(JoinedRow("p1", w, 2, SeasonMatch("mixed", Len(match_players) + 1)))

NextMixed == InsertMixedRow \/ LoadStats \/ LoadStatsError
SpecMixed == Init /\ [][NextMixed]_vars

NextTyped ==
    \/ InsertTypedRow \/ LoadStats \/ LoadStatsError
    \/ ProfileFetched \/ ProfileFetchError
    \/ StatsFetched \/ StatsFetchError
    \/ RecentFetched \/ RecentFetchError
SpecTyped == Init /\ [][NextTyped]_vars

\* category feed: a player's game of any type, won or lost, or an opponent's
\* lost game
InsertCategoryRow ==
    /\ Len(match_players) < MaxCategoryRows
    /\ \E m \in TypedMatches :
          \/ \E w \in BOOLEAN : StoreRow(JoinedRow("p1", w, 2, m))
          \/ StoreRow(JoinedRow("p2", FALSE, 2, m))

NextCategories == InsertCategoryRow \/ LoadStats \/ LoadStatsError
SpecCategories == Init /\ [][NextCategories]_vars

\* two-page feed: the player of the page in any of the matches, won or lost,
\* with or without a score, or an opponent's scored win, stored before either
\* page's fetches are answered
InsertBothPagesRow ==
    /\ Len(match_players) < MaxBothPagesRows
    /\ profilePc = "profile"
    /\ \E m \in BothPagesMatches :
          \/ \E w \in BOOLEAN, sc \in BothPagesScores :
                StoreRow(JoinedRow(ProfileId, w, sc, m))
          \/ StoreRow(JoinedRow(BothPagesOpponent, TRUE, 3, m))

NextBothPages == InsertBothPagesRow \/ LoadStats \/ ProfileFetched \/ StatsFetched
SpecBothPages == Init /\ [][NextBothPages]_vars

\* MatchesPage: the effect runs load once more on the mount (both runs start
\* before any answer), up to its first await
RunLoad ==
    /\ Len(matchesPc) < MaxLoads
    /\ \A k \in DOMAIN matchesPc : matchesPc[k] = "user"
    /\ matchesPc' = Append(matchesPc, "user")
    /\ matchesLoading' = TRUE
    /\ matchesErrorMessage' = ""
    /\ UNCHANGED <<clearedFrom, pageRequests, user, profiles, matches,
                   currentPage, totalPages>>
    /\ UNCHANGED <<homeVars, profilePageVars, otherVars>>

\* load, first await: userError || !userData.user
UserLookupNone ==
    \E k \in DOMAIN matchesPc :
       /\ matchesPc[k] = "user"
       /\ user' = ""
       /\ clearedFrom' = <<[matches |-> matches, profiles |-> profiles,
                            currentPage |-> currentPage, totalPages |-> totalPages]>>
       /\ matches' = clearMatchesState.matches
       /\ profiles' = clearMatchesState.profiles
       /\ currentPage' = clearMatchesState.currentPage
       /\ totalPages' = clearMatchesState.totalPages
       /\ matchesLoading' = FALSE
       /\ matchesPc' = [matchesPc EXCEPT ![k] = "done"]
       /\ UNCHANGED <<pageRequests, matchesErrorMessage>>
       /\ UNCHANGED <<homeVars, profilePageVars, otherVars>>

\* load, first await: a user is signed in
UserLookupSigned ==
    \E k \in DOMAIN matchesPc :
       /\ matchesPc[k] = "user"
       /\ user' = SignedInUser
       /\ matchesPc' = [matchesPc EXCEPT ![k] = "profiles"]
       /\ UNCHANGED <<clearedFrom, pageRequests, matchesLoading, profiles, matches,
                      matchesErrorMessage, currentPage, totalPages>>
       /\ UNCHANGED <<homeVars, profilePageVars, otherVars>>

\* load, second await: the profiles arrive (profilesData || [])
ProfilesAnswered ==
    \E k \in DOMAIN matchesPc :
       /\ matchesPc[k] = "profiles"
       /\ \E profilesData \in {<<>>, StoredProfiles} : profiles' = profilesData
       /\ matchesPc' = [matchesPc EXCEPT ![k] = "matches"]
       /\ UNCHANGED <<clearedFrom, pageRequests, user, matchesLoading, matches,
                      matchesErrorMessage, currentPage, totalPages>>
       /\ UNCHANGED <<homeVars, profilePageVars, otherVars>>

\* load, second await: profilesError
ProfilesError ==
    \E k \in DOMAIN matchesPc :
       /\ matchesPc[k] = "profiles"
       /\ matchesErrorMessage' = "Error loading profiles: " \o FetchErrorText
       /\ matchesPc' = [matchesPc EXCEPT ![k] = "matches"]
       /\ UNCHANGED <<clearedFrom, pageRequests, user, matchesLoading, profiles,
                      matches, currentPage, totalPages>>
       /\ UNCHANGED <<homeVars, profilePageVars, otherVars>>

\* load, third await: reloadMatches(1) returns
MatchesAnswered ==
    \E k \in DOMAIN matchesPc :
       /\ matchesPc[k] = "matches"
       /\ \E count \in MatchCounts, counted \in BOOLEAN :
             reloadMatchesAnswered(1, count, counted)
       /\ matchesLoading' = FALSE
       /\ matchesPc' = [matchesPc EXCEPT ![k] = "done"]
       /\ UNCHANGED <<clearedFrom, pageRequests, user, profiles, matchesErrorMessage>>
       /\ UNCHANGED <<homeVars, profilePageVars, otherVars>>

\* load, third await: reloadMatches(1) throws
MatchesError ==
    \E k \in DOMAIN matchesPc :
       /\ matchesPc[k] = "matches"
       /\ matchesErrorMessage' =
             (IF matchesErrorMessage # "" THEN matchesErrorMessage \o " | " ELSE "")
                 \o "Error loading matches: " \o FetchErrorText
       /\ matchesLoading' = FALSE
       /\ matchesPc' = [matchesPc EXCEPT ![k] = "done"]
       /\ UNCHANGED <<clearedFrom, pageRequests, user, profiles, matches,
                      currentPage, totalPages>>
       /\ UNCHANGED <<homeVars, profilePageVars, otherVars>>

\* Previous / Next of the rendered list: reloadMatches(currentPage -/+ 1) up
\* to its await
ClickPage ==
    /\ ~matchesLoading /\ user # "" /\ Len(matches) # 0
    /\ \E page \in {currentPage - 1, currentPage + 1} :
          /\ page = currentPage - 1 => ~(currentPage <= 1)
          /\ page = currentPage + 1 => ~(currentPage >= totalPages)
          /\ pageRequests' = pageRequests \cup {page}
    /\ UNCHANGED <<matchesPc, clearedFrom, user, matchesLoading, profiles, matches,
                   matchesErrorMessage, currentPage, totalPages>>
    /\ UNCHANGED <<homeVars, profilePageVars, otherVars>>

\* a clicked reloadMatches(page) returns
PageAnswered ==
    \E page \in pageRequests :
       /\ \E count \in MatchCounts, counted \in BOOLEAN :
             reloadMatchesAnswered(page, count, counted)
       /\ pageRequests' = pageRequests \ {page}
       /\ UNCHANGED <<matchesPc, clearedFrom, user, matchesLoading, profiles,
                      matchesErrorMessage>>
       /\ UNCHANGED <<homeVars, profilePageVars, otherVars>>

\* a clicked reloadMatches(page) throws: the rejection is caught nowhere
PageError ==
    \E page \in pageRequests :
       /\ pageRequests' = pageRequests \ {page}
       /\ UNCHANGED <<matchesPc, clearedFrom, user, matchesLoading, profiles, matches,
                      matchesErrorMessage, currentPage, totalPages>>
       /\ UNCHANGED <<homeVars, profilePageVars, otherVars>>

NextMatches ==
    \/ RunLoad
    \/ UserLookupNone \/ UserLookupSigned
    \/ ProfilesAnswered \/ ProfilesError
    \/ MatchesAnswered \/ MatchesError
    \/ ClickPage \/ PageAnswered \/ PageError
SpecMatches == Init /\ [][NextMatches]_vars


----------------------------------------------------------------------------
(* MatchesPage: the match form and handleSaveMatch *)

\* the form is rendered: not loading, signed in
formShown == ~matchesLoading /\ user # ""

\* load, third await: reloadMatches(1) returns the stored matches
StoredMatchesAnswered ==
    \E k \in DOMAIN matchesPc :
       /\ matchesPc[k] = "matches"
       /\ matches' = listedMatches(1)
       /\ \E counted \in BOOLEAN :
             totalPages' = IF counted THEN pagesOf(Len(storedMatches)) ELSE totalPages
       /\ currentPage' = 1
       /\ matchesLoading' = FALSE
       /\ matchesPc' = [matchesPc EXCEPT ![k] = "done"]
       /\ UNCHANGED <<clearedFrom, pageRequests, user, profiles, matchesErrorMessage>>
       /\ UNCHANGED <<homeVars, profilePageVars, otherVars>>

formUnchanged == UNCHANGED <<elsewhereVars, matchesPageVars, storeVars>>

\* the game type select: setGameType(e.target.value)
GameTypeChange ==
    /\ formShown
    /\ \E value \in GameTypeOptions : formGameType' = value
    /\ UNCHANGED <<numPlayers, playerEntries, winnerPlayerId, editingMatchId, saveCalls>>
    /\ formUnchanged

\* handleNumPlayersChange
NumPlayersChange ==
    /\ formShown
    /\ \E newNum \in NumPlayersOptions :
          /\ ~(newNum < 2 \/ newNum > 10)
          /\ numPlayers' = newNum
          /\ playerEntries' = ensurePlayerEntriesSize(playerEntries, newNum)
          /\ winnerPlayerId' = stillPresentWinner(playerEntries, newNum, winnerPlayerId)
    /\ UNCHANGED <<formGameType, editingMatchId, saveCalls>>
    /\ formUnchanged

\* handlePlayerChange, from the select of a shown entry
PlayerChange ==
    /\ formShown
    /\ \E index \in DOMAIN activeEntries(playerEntries, numPlayers),
          playerId \in {""} \cup {profiles[i] : i \in DOMAIN profiles} :
          /\ playerEntries' = [playerEntries EXCEPT ![index].playerId = playerId]
          /\ winnerPlayerId' = followedWinner(playerEntries, index, playerId, winnerPlayerId)
    /\ UNCHANGED <<formGameType, numPlayers, editingMatchId, saveCalls>>
    /\ formUnchanged

\* handleStatChange, from the input of a shown entry
StatChange ==
    /\ formShown
    /\ \E index \in DOMAIN activeEntries(playerEntries, numPlayers), n \in StatValues :
          playerEntries' = [playerEntries EXCEPT ![index].stat = ToString(n)]
    /\ UNCHANGED <<formGameType, numPlayers, winnerPlayerId, editingMatchId, saveCalls>>
    /\ formUnchanged

\* the winner select: its options are "" and the players of the shown entries
WinnerChange ==
    /\ formShown
    /\ LET shown == activeEntries(playerEntries, numPlayers)
       IN  \E value \in {""} \cup {shown[i].playerId : i \in DOMAIN shown} :
              winnerPlayerId' = value
    /\ UNCHANGED <<formGameType, numPlayers, playerEntries, editingMatchId, saveCalls>>
    /\ formUnchanged

\* the Cancel button, shown while editing: resetForm
CancelEdit ==
    /\ formShown
    /\ editingMatchId # 0
    /\ formGameType' = resetForm.gameType
    /\ numPlayers' = resetForm.numPlayers
    /\ playerEntries' = resetForm.playerEntries
    /\ winnerPlayerId' = resetForm.winnerPlayerId
    /\ editingMatchId' = resetForm.editingMatchId
    /\ UNCHANGED saveCalls
    /\ formUnchanged

\* handleEditClick on a match of the list (the button shows if canEdit)
EditClick ==
    /\ formShown
    /\ \E k \in DOMAIN matches :
          /\ matches[k].created_by = user
          /\ IF editError(user, matches[k]) # ""
             THEN /\ matchesErrorMessage' = editError(user, matches[k])
                  /\ UNCHANGED <<formGameType, numPlayers, playerEntries, winnerPlayerId,
                                 editingMatchId>>
             ELSE /\ matchesErrorMessage' = ""
                  /\ formGameType' = editedForm(matches[k]).gameType
                  /\ numPlayers' = editedForm(matches[k]).numPlayers
                  /\ playerEntries' = editedForm(matches[k]).playerEntries
                  /\ winnerPlayerId' = editedForm(matches[k]).winnerPlayerId
                  /\ editingMatchId' = editedForm(matches[k]).editingMatchId
    /\ UNCHANGED <<matchesPc, clearedFrom, pageRequests, user, matchesLoading, profiles,
                   matches, currentPage, totalPages>>
    /\ UNCHANGED <<saveCalls, storeVars, elsewhereVars>>

\* handleSaveMatch up to its first await: it returns with a message, or goes
\* on to insert (new match) or update (edited match) the matches row
SubmitSave ==
    /\ formShown
    /\ Len(saveCalls) < MaxSaveCalls
    /\ LET message == saveError(user, formGameType, playerEntries, numPlayers, winnerPlayerId)
           call == [pc |-> IF editingMatchId = 0 THEN "insertMatch" ELSE "updateMatch",
                    matchId |-> editingMatchId,
                    game_type |-> formGameType,
                    created_by |-> user,
                    payload |-> matchPlayersPayload(formGameType, playerEntries, numPlayers,
                                                    winnerPlayerId)]
           mine == \E k \in DOMAIN matches :
                      matches[k].id = editingMatchId /\ matches[k].created_by = user
       IN  IF message # ""
           THEN matchesErrorMessage' = message /\ UNCHANGED saveCalls
           ELSE IF editingMatchId # 0 /\ ~mine
           THEN /\ matchesErrorMessage' = "You can only edit matches you created."
                /\ UNCHANGED saveCalls
           ELSE matchesErrorMessage' = "" /\ saveCalls' = Append(saveCalls, call)
    /\ UNCHANGED <<formGameType, numPlayers, playerEntries, winnerPlayerId, editingMatchId>>
    /\ UNCHANGED <<matchesPc, clearedFrom, pageRequests, user, matchesLoading, profiles,
                   matches, currentPage, totalPages>>
    /\ UNCHANGED <<storeVars, elsewhereVars>>

withoutCall(k) == [i \in 1..(Len(saveCalls) - 1) |->
                      IF i < k THEN saveCalls[i] ELSE saveCalls[i + 1]]

saveStepUnchanged ==
    /\ UNCHANGED <<formGameType, numPlayers, playerEntries, winnerPlayerId, editingMatchId>>
    /\ UNCHANGED <<elsewhereVars, matchesPageVars>>

\* new match: the insert into matches returns the row, with its id
MatchInserted ==
    \E k \in DOMAIN saveCalls :
       /\ saveCalls[k].pc = "insertMatch"
       /\ Len(storedMatches) < MaxStoredMatches
       /\ storedMatches' = Append(storedMatches,
             [game_type |-> saveCalls[k].game_type, created_by |-> saveCalls[k].created_by])
       /\ saveCalls' = [saveCalls EXCEPT ![k].pc = "insertPlayers",
                                         ![k].matchId = Len(storedMatches) + 1]
       /\ UNCHANGED storedMatchPlayers
       /\ saveStepUnchanged

\* edited match: the update of the matches row returns
MatchUpdated ==
    \E k \in DOMAIN saveCalls :
       /\ saveCalls[k].pc = "updateMatch"
       /\ storedMatches' =
             [storedMatches EXCEPT ![saveCalls[k].matchId].game_type = saveCalls[k].game_type]
       /\ saveCalls' = [saveCalls EXCEPT ![k].pc = "deletePlayers"]
       /\ UNCHANGED storedMatchPlayers
       /\ saveStepUnchanged

\* edited match: the delete of its match_players rows returns
PlayersDeleted ==
    \E k \in DOMAIN saveCalls :
       /\ saveCalls[k].pc = "deletePlayers"
       /\ storedMatchPlayers' =
             SelectSeq(storedMatchPlayers, LAMBDA r : r.match_id # saveCalls[k].matchId)
       /\ saveCalls' = [saveCalls EXCEPT ![k].pc = "insertPlayers"]
       /\ UNCHANGED storedMatches
       /\ saveStepUnchanged

\* the insert of the match_players rows returns
PlayersInserted ==
    \E k \in DOMAIN saveCalls :
       /\ saveCalls[k].pc = "insertPlayers"
       /\ storedMatchPlayers' = storedMatchPlayers \o
             [i \in DOMAIN saveCalls[k].payload |->
                 [match_id |-> saveCalls[k].matchId,
                  player_id |-> saveCalls[k].payload[i].player_id,
                  score |-> saveCalls[k].payload[i].score,
                  is_winner |-> saveCalls[k].payload[i].is_winner]]
       /\ saveCalls' = [saveCalls EXCEPT ![k].pc = "reload"]
       /\ UNCHANGED storedMatches
       /\ saveStepUnchanged

\* reloadMatches(1) returns, then resetForm
SaveReloaded ==
    \E k \in DOMAIN saveCalls :
       /\ saveCalls[k].pc = "reload"
       /\ matches' = listedMatches(1)
       /\ \E counted \in BOOLEAN :
             totalPages' = IF counted THEN pagesOf(Len(storedMatches)) ELSE totalPages
       /\ currentPage' = 1
       /\ formGameType' = resetForm.gameType
       /\ numPlayers' = resetForm.numPlayers
       /\ playerEntries' = resetForm.playerEntries
       /\ winnerPlayerId' = resetForm.winnerPlayerId
       /\ editingMatchId' = resetForm.editingMatchId
       /\ saveCalls' = withoutCall(k)
       /\ UNCHANGED <<matchesPc, clearedFrom, pageRequests, user, matchesLoading, profiles,
                      matchesErrorMessage>>
       /\ UNCHANGED <<storeVars, elsewhereVars>>

\* a store call of handleSaveMatch answers with an error: the throw lands in
\* the catch, which only reports it
SaveStepError ==
    \E k \in DOMAIN saveCalls :
       /\ matchesErrorMessage' = "Error saving match: " \o FetchErrorText
       /\ saveCalls' = withoutCall(k)
       /\ UNCHANGED <<formGameType, numPlayers, playerEntries, winnerPlayerId, editingMatchId>>
       /\ UNCHANGED <<matchesPc, clearedFrom, pageRequests, user, matchesLoading, profiles,
                      matches, currentPage, totalPages>>
       /\ UNCHANGED <<storeVars, elsewhereVars>>

\* the form alone, over a list that holds a match of the signed-in user
NextForm ==
    \/ UserLookupSigned \/ ProfilesAnswered \/ StoredMatchesAnswered
    \/ GameTypeChange \/ NumPlayersChange \/ PlayerChange \/ StatChange \/ WinnerChange
    \/ CancelEdit \/ EditClick
SpecForm == InitForm /\ [][NextForm]_vars

\* saving two-player matches
NextSave ==
    \/ UserLookupSigned \/ ProfilesAnswered \/ StoredMatchesAnswered
    \/ PlayerChange \/ StatChange \/ WinnerChange \/ EditClick
    \/ SubmitSave \/ MatchInserted \/ MatchUpdated \/ PlayersDeleted \/ PlayersInserted
    \/ SaveReloaded \/ SaveStepError
SpecSave == Init /\ [][NextSave]_vars

----------------------------------------------------------------------------
(* POST of the account deletion endpoint *)

withoutRequest(k) == [i \in 1..(Len(deleteRequests) - 1) |->
                         IF i < k THEN deleteRequests[i] ELSE deleteRequests[i + 1]]

\* a deployment without the service role key: supabaseAdmin is null
Unconfigured ==
    /\ supabaseAdmin
    /\ deleteRequests = <<>> /\ deleteAnswers = <<>>
    /\ supabaseAdmin' = FALSE
    /\ UNCHANGED <<storedProfiles, authUsers, deleteRequests, deleteAnswers, clientVars>>

\* POST up to its first await: 500 without the admin client, 401 without a
\* bearer token, else getUser is awaited
PostReceived ==
    /\ Len(deleteRequests) + Len(deleteAnswers) < MaxDeleteRequests
    /\ \E authHeader \in AuthHeaders :
          LET request == [pc |-> "getUser", authHeader |-> authHeader, userId |-> ""]
          IN  IF ~supabaseAdmin
              THEN /\ deleteAnswers' = Append(deleteAnswers,
                          response(request, 500,
                                   "Server is not configured for account deletion."))
                   /\ UNCHANGED deleteRequests
              ELSE IF bearerToken(authHeader) = ""
              THEN /\ deleteAnswers' = Append(deleteAnswers,
                                              response(request, 401, "Unauthorized"))
                   /\ UNCHANGED deleteRequests
              ELSE /\ deleteRequests' = Append(deleteRequests, request)
                   /\ UNCHANGED deleteAnswers
    /\ UNCHANGED <<supabaseAdmin, storedProfiles, authUsers, clientVars>>

\* getUser answers: userError || !userData?.user gives 401, else the delete
\* of the profiles row is awaited
GetUserAnswered ==
    \E k \in DOMAIN deleteRequests :
       /\ deleteRequests[k].pc = "getUser"
       /\ LET userId == getUser(bearerToken(deleteRequests[k].authHeader), authUsers)
          IN  IF userId = ""
              THEN /\ deleteAnswers' = Append(deleteAnswers,
                          response(deleteRequests[k], 401, "Unauthorized"))
                   /\ deleteRequests' = withoutRequest(k)
              ELSE /\ deleteRequests' = [deleteRequests EXCEPT ![k].pc = "deleteProfile",
                                                               ![k].userId = userId]
                   /\ UNCHANGED deleteAnswers
       /\ UNCHANGED <<supabaseAdmin, storedProfiles, authUsers, clientVars>>

\* getUser answers with an error
GetUserError ==
    \E k \in DOMAIN deleteRequests :
       /\ deleteRequests[k].pc = "getUser"
       /\ deleteAnswers' = Append(deleteAnswers,
                                  response(deleteRequests[k], 401, "Unauthorized"))
       /\ deleteRequests' = withoutRequest(k)
       /\ UNCHANGED <<supabaseAdmin, storedProfiles, authUsers, clientVars>>

\* the delete of the profiles row answers
ProfileDeleted ==
    \E k \in DOMAIN deleteRequests :
       /\ deleteRequests[k].pc = "deleteProfile"
       /\ storedProfiles' = storedProfiles \ {deleteRequests[k].userId}
       /\ deleteRequests' = [deleteRequests EXCEPT ![k].pc = "deleteUser"]
       /\ UNCHANGED <<supabaseAdmin, authUsers, deleteAnswers, clientVars>>

\* the delete of the profiles row answers with an error: it is logged and
\* POST goes on
ProfileDeleteError ==
    \E k \in DOMAIN deleteRequests :
       /\ deleteRequests[k].pc = "deleteProfile"
       /\ deleteRequests' = [deleteRequests EXCEPT ![k].pc = "deleteUser"]
       /\ UNCHANGED <<supabaseAdmin, storedProfiles, authUsers, deleteAnswers, clientVars>>

\* auth.admin.deleteUser answers
UserDeleted ==
    \E k \in DOMAIN deleteRequests :
       /\ deleteRequests[k].pc = "deleteUser"
       /\ deleteRequests[k].userId \in authUsers
       /\ authUsers' = authUsers \ {deleteRequests[k].userId}
       /\ deleteAnswers' = Append(deleteAnswers,
                                  response(deleteRequests[k], 200, "Account deleted"))
       /\ deleteRequests' = withoutRequest(k)
       /\ UNCHANGED <<supabaseAdmin, storedProfiles, clientVars>>

\* auth.admin.deleteUser answers with an error
UserDeleteError ==
    \E k \in DOMAIN deleteRequests :
       /\ deleteRequests[k].pc = "deleteUser"
       /\ deleteAnswers' = Append(deleteAnswers,
             response(deleteRequests[k], 500, "Unable to delete account at this time."))
       /\ deleteRequests' = withoutRequest(k)
       /\ UNCHANGED <<supabaseAdmin, storedProfiles, authUsers, clientVars>>

NextAccount ==
    \/ Unconfigured \/ PostReceived
    \/ GetUserAnswered \/ GetUserError
    \/ ProfileDeleted \/ ProfileDeleteError
    \/ UserDeleted \/ UserDeleteError
SpecAccount == Init /\ [][NextAccount]_vars

----------------------------------------------------------------------------
(* ProfilePage: the match history tabs *)

\* the page is rendered with its tabs
historyShown == ~profileLoading /\ profile # "" /\ profileErrorMessage = ""

\* The effects that follow the render after a handler left allMatchesLoading
\* at loadingSet.  The effect of loadAllMatches runs when activeTab,
\* allMatchesPage or a filter changed, and calls loadAllMatches(allMatchesPage)
\* on the All Matches tab, up to its await; the effect of visibleAllMatches
\* runs when a filter or allMatchesLoading changed, with the values of that
\* render.
handlerEffects(loadingSet) ==
    LET fetches ==
            /\ activeTab' = "all"
            /\ <<activeTab', allMatchesPage', gameTypeFilter', resultFilter'>>
                  # <<activeTab, allMatchesPage, gameTypeFilter, resultFilter>>
        call == [page |-> allMatchesPage', gameTypeFilter |-> gameTypeFilter',
                 resultFilter |-> resultFilter', latest |-> TRUE]
        shows ==
            /\ <<loadingSet, gameTypeFilter', resultFilter'>>
                  # <<allMatchesLoading, gameTypeFilter, resultFilter>>
            /\ ~loadingSet
    IN  /\ fetches => Len(allMatchesRequests) < MaxAllRequests
        /\ IF fetches
           THEN /\ allMatchesLoading' = TRUE
                /\ allMatchesError' = ""
                /\ allMatchesRequests' =
                      Append([i \in DOMAIN allMatchesRequests |->
                                 [allMatchesRequests[i] EXCEPT !.latest = FALSE]], call)
                /\ latestRequest' = <<[page |-> call.page,
                                       gameTypeFilter |-> call.gameTypeFilter,
                                       resultFilter |-> call.resultFilter,
                                       outcome |-> "pending"]>>
           ELSE /\ allMatchesLoading' = loadingSet
                /\ UNCHANGED <<allMatchesError, allMatchesRequests, latestRequest>>
        /\ visibleAllMatches' =
              IF shows THEN applyMatchFilters(allMatches, gameTypeFilter', resultFilter')
              ELSE visibleAllMatches
        /\ UNCHANGED <<allMatches, allMatchesTotalPages>>

historyUnchanged ==
    UNCHANGED <<homeVars, profilePageVars, matchesPageVars, storeVars, matchFormVars,
                accountVars, selectionVars>>

\* handleTabChange
TabChange ==
    /\ historyShown
    /\ \E tab \in {"recent", "all"} :
          /\ activeTab' = tab
          /\ UNCHANGED <<allMatchesPage, gameTypeFilter, resultFilter>>
          /\ handlerEffects(IF tab = "all" THEN TRUE ELSE allMatchesLoading)
    /\ historyUnchanged

\* onChange of the Game Type select
GameTypeFilterChange ==
    /\ historyShown
    /\ \E value \in GameTypeFilters \ {gameTypeFilter} :
          /\ gameTypeFilter' = value
          /\ allMatchesPage' = 1
          /\ UNCHANGED <<activeTab, resultFilter>>
          /\ handlerEffects(IF activeTab = "all" THEN TRUE ELSE allMatchesLoading)
    /\ historyUnchanged

\* onChange of the Result select
ResultFilterChange ==
    /\ historyShown
    /\ \E value \in ResultFilters \ {resultFilter} :
          /\ resultFilter' = value
          /\ allMatchesPage' = 1
          /\ UNCHANGED <<activeTab, gameTypeFilter>>
          /\ handlerEffects(IF activeTab = "all" THEN TRUE ELSE allMatchesLoading)
    /\ historyUnchanged

\* the pagination row shows under the list of the All Matches tab
paginationShown ==
    historyShown /\ activeTab = "all" /\ Len(visibleAllMatches) > 0

\* onClick of Previous
PreviousPage ==
    /\ paginationShown
    /\ ~(allMatchesPage = 1 \/ allMatchesLoading)
    /\ allMatchesPage' = IF allMatchesPage - 1 > 1 THEN allMatchesPage - 1 ELSE 1
    /\ UNCHANGED <<activeTab, gameTypeFilter, resultFilter>>
    /\ handlerEffects(TRUE)
    /\ historyUnchanged

\* onClick of Next
NextPage ==
    /\ paginationShown
    /\ ~(allMatchesPage = allMatchesTotalPages \/ allMatchesLoading)
    /\ allMatchesPage' = IF allMatchesPage >= allMatchesTotalPages
                          THEN allMatchesTotalPages ELSE allMatchesPage + 1
    /\ UNCHANGED <<activeTab, gameTypeFilter, resultFilter>>
    /\ handlerEffects(TRUE)
    /\ historyUnchanged

withoutAllRequest(k) == [i \in 1..(Len(allMatchesRequests) - 1) |->
                            IF i < k THEN allMatchesRequests[i]
                            ELSE allMatchesRequests[i + 1]]

answeredLatest(k, outcome) ==
    IF allMatchesRequests[k].latest
    THEN <<[latestRequest[1] EXCEPT !.outcome = outcome]>>
    ELSE latestRequest

\* a call of loadAllMatches is answered with its page, whichever call it
\* is; the effect of visibleAllMatches follows (allMatches is a new array)
AllMatchesAnswered ==
    /\ \E k \in DOMAIN allMatchesRequests :
          LET answer == allMatchesAnswer(allMatchesRequests[k])
          IN  /\ allMatchesTotalPages' = allMatchesPagesOf(answer.count)
              /\ allMatches' = answer.data
              /\ allMatchesLoading' = FALSE
              /\ visibleAllMatches' =
                    applyMatchFilters(answer.data, gameTypeFilter, resultFilter)
              /\ allMatchesRequests' = withoutAllRequest(k)
              /\ latestRequest' = answeredLatest(k, "data")
    /\ UNCHANGED <<activeTab, allMatchesPage, gameTypeFilter, resultFilter,
                   allMatchesError>>
    /\ historyUnchanged

\* a call of loadAllMatches is answered with an error
AllMatchesFailed ==
    /\ \E k \in DOMAIN allMatchesRequests :
          /\ allMatchesError' = "Could not load match history."
          /\ allMatches' = <<>>
          /\ allMatchesLoading' = FALSE
          /\ visibleAllMatches' = applyMatchFilters(<<>>, gameTypeFilter, resultFilter)
          /\ allMatchesRequests' = withoutAllRequest(k)
          /\ latestRequest' = answeredLatest(k, "error")
    /\ UNCHANGED <<activeTab, allMatchesPage, allMatchesTotalPages, gameTypeFilter,
                   resultFilter>>
    /\ historyUnchanged

NextHistory ==
    \/ ProfileFetched \/ StatsFetched \/ RecentFetched
    \/ TabChange \/ GameTypeFilterChange \/ ResultFilterChange
    \/ PreviousPage \/ NextPage
    \/ AllMatchesAnswered \/ AllMatchesFailed
SpecHistory == Init /\ [][NextHistory]_vars

----------------------------------------------------------------------------
(* Home: sign-in, sign-out and the player selects *)

\* the users a session can hold: a player of the league, an account that
\* played no match
SessionUsers == {"p2", "u1"}

selectionUnchanged ==
    UNCHANGED <<homeVars, profilePageVars, matchesPageVars, storeVars, matchFormVars,
                accountVars, allMatchesVars>>

\* the players of the select feed, in an order that is not that of their names
SelectPlayers == {"p3", "p2"}

\* select feed: a player's row of either match
InsertSelectRow ==
    /\ Len(match_players) < MaxSelectRows
    /\ \E p \in SelectPlayers, m \in LeagueMatches :
          StoreRow(JoinedRow(p, p = "p3", 2, m))

\* the rows of a match are deleted (the edit of a match, before its rows are
\* inserted again) before the page's fetch is answered
DeleteMatchRows ==
    /\ loading
    /\ \E m \in LeagueMatches :
          /\ \E i \in DOMAIN match_players : match_players[i].match_id = m.id
          /\ match_players' = SelectSeq(match_players, LAMBDA r : r.match_id # m.id)
    /\ UNCHANGED <<pageState, loadRuns, profilePageVars, matchesPageVars, otherVars>>

\* loadUser: getUser answers with the session's user or none
LoadUser ==
    /\ authLoading
    /\ \E u \in SessionUsers \cup {""} : homeUser' = u
    /\ authLoading' = FALSE
    /\ UNCHANGED <<selectedHeadPlayer, selectedGameTypePlayer>>
    /\ selectionUnchanged

\* the onAuthStateChange callback: a sign-in or a sign-out
AuthStateChange ==
    /\ \E u \in SessionUsers \cup {""} : homeUser' = u
    /\ UNCHANGED <<authLoading, selectedHeadPlayer, selectedGameTypePlayer>>
    /\ selectionUnchanged

\* onChange of the head-to-head select
SelectHeadPlayer ==
    /\ ~(loading \/ Len(headToHeadOptions) = 0)
    /\ \E i \in DOMAIN headToHeadOptions :
          selectedHeadPlayer' = headToHeadOptions[i].id
    /\ UNCHANGED <<authLoading, homeUser, selectedGameTypePlayer>>
    /\ selectionUnchanged

\* onChange of the game type select
SelectGameTypePlayer ==
    /\ ~(loading \/ Len(gameTypeOptions) = 0)
    /\ \E i \in DOMAIN gameTypeOptions :
          selectedGameTypePlayer' = gameTypeOptions[i].id
    /\ UNCHANGED <<authLoading, homeUser, selectedHeadPlayer>>
    /\ selectionUnchanged

NextSelect ==
    \/ InsertSelectRow \/ DeleteMatchRows
    \/ RunLoadStats \/ LoadStats
    \/ LoadUser \/ AuthStateChange
    \/ SelectHeadPlayer \/ SelectGameTypePlayer
SpecSelect == Init /\ [][NextSelect]_vars

\* the page shows the tables computed from the fetched rows
Loaded == ~loading /\ errorMessage = ""

----------------------------------------------------------------------------
(* Reference quantities, read off the fetched rows *)

RowsOf(p) == {i \in DOMAIN match_players : match_players[i].player_id = p}
WonRow(i) == match_players[i].is_winner = TRUE
TypeOfRow(i) == match_players[i].matches.game_type
CategoryOfRow(i) ==
    IF TypeOfRow(i) \in {"Cricket", "501", "301"} THEN TypeOfRow(i) ELSE "Other"
RowsInCategory(p, type) == {i \in RowsOf(p) : CategoryOfRow(i) = type}

\* the rows of S oldest first, rows of the same instant in fetch order
Chrono(S) ==
    LET earlier(j, i) ==
            \/ match_players[j].matches.played_at < match_players[i].matches.played_at
            \/ /\ match_players[j].matches.played_at = match_players[i].matches.played_at
               /\ j < i
        before == [i \in S |-> Cardinality({j \in S : earlier(j, i)})]
    IN  [k \in 1..Cardinality(S) |-> CHOOSE i \in S : before[i] = k - 1]
ChronoWins(S) ==
    LET chrono == Chrono(S)
    IN  [k \in DOMAIN chrono |-> WonRow(chrono[k])]

IsZeroFrac(f) == f[2] > 0 /\ f[1] = 0

Min(a, b) == IF a < b THEN a ELSE b

----------------------------------------------------------------------------
(* C1 *)

WinsPlusLosses(r) == r.wins + r.losses = r.games

\* C1: every record the aggregator produces -- each player's overall record,
\* each per-game-type row of a player and each head-to-head record against an
\* opponent -- has wins + losses = games.
C1_WinsPlusLossesIsGames ==
    Loaded =>
        /\ \A i \in DOMAIN winLossStats : WinsPlusLosses(winLossStats[i])
        /\ \A p \in Players :
              LET byType == gameTypeStats(p)
                  byOpponent == headToHeadStats(p)
              IN  /\ \A i \in DOMAIN byType : WinsPlusLosses(byType[i])
                  /\ \A i \in DOMAIN byOpponent : WinsPlusLosses(byOpponent[i])

\* a loaded board where some player has won and lost and has faced an opponent
C1_Witness ==
    /\ Loaded
    /\ \E i \in DOMAIN winLossStats :
          LET byType == gameTypeStats(winLossStats[i].playerId)
          IN  /\ winLossStats[i].wins > 0
              /\ winLossStats[i].losses > 0
              /\ headToHeadStats(winLossStats[i].playerId) # <<>>
              /\ \E j \in DOMAIN byType : byType[j].games > 0

----------------------------------------------------------------------------
(* C2 *)

\* streak is "W<n>" or "L<n>": the letter is the last outcome of wins, n the
\* length of the maximal run of that outcome at the end of wins
IsStreakOf(streak, wins) ==
    LET n == Len(wins)
        last == wins[n]
        letter == IF last THEN "W" ELSE "L"
    IN  \E k \in 1..n :
           /\ \A i \in (n - k + 1)..n : wins[i] = last
           /\ (k = n \/ wins[n - k] # last)
           /\ streak = letter \o ToString(k)

\* C2: for a non-empty outcome list the streak is "W<n>" or "L<n>", the
\* letter being the outcome of the chronologically last game and n the length
\* of the maximal run of that outcome at the end of the chronological
\* sequence (overall record and every game-type row with games).
C2_StreakIsLastRun ==
    Loaded =>
        /\ \A i \in DOMAIN winLossStats :
              LET wins == ChronoWins(RowsOf(winLossStats[i].playerId))
              IN  IsStreakOf(winLossStats[i].streak, wins)
        /\ \A p \in Players :
              LET byType == gameTypeStats(p)
              IN  \A i \in DOMAIN byType :
                     RowsInCategory(p, byType[i].type) # {} =>
                        LET wins == ChronoWins(RowsInCategory(p, byType[i].type))
                        IN  IsStreakOf(byType[i].streak, wins)

\* six or more games fetched newest first, ending (chronologically) in a run
\* of two or more that does not span the whole history
C2_Witness ==
    /\ Loaded
    /\ Len(match_players) >= 6
    /\ match_players[1].matches.played_at > match_players[2].matches.played_at
    /\ WonRow(1) = WonRow(2)
    /\ \E i \in DOMAIN match_players : WonRow(i) # WonRow(1)
    /\ winLossStats[1].streak \notin {"W1", "L1"}
    /\ gameTypeStats("p1")[2].streak = winLossStats[1].streak

----------------------------------------------------------------------------
(* C3 *)

\* "<w>-<l>" over the last min(k, games) entries of wins
RecentOf(wins, k) ==
    LET n == Len(wins)
        window == (n - Min(k, n) + 1)..n
        w == Cardinality({i \in window : wins[i]})
        l == Cardinality({i \in window : ~wins[i]})
    IN  ToString(w) \o "-" \o ToString(l)

\* C3: for window size k in {5, 10} and a player with at least one game the
\* rolling-window record is "<w>-<l>", w and l being the wins and losses
\* among the last min(k, games) entries of the chronological outcome
\* sequence (overall record and every game-type row with games).
C3_RollingWindow ==
    Loaded =>
        /\ \A i \in DOMAIN winLossStats :
              LET wins == ChronoWins(RowsOf(winLossStats[i].playerId))
              IN  /\ winLossStats[i].last5 = RecentOf(wins, 5)
                  /\ winLossStats[i].last10 = RecentOf(wins, 10)
        /\ \A p \in Players :
              LET byType == gameTypeStats(p)
              IN  \A i \in DOMAIN byType :
                     RowsInCategory(p, byType[i].type) # {} =>
                        LET wins == ChronoWins(RowsInCategory(p, byType[i].type))
                        IN  /\ byType[i].last5 = RecentOf(wins, 5)
                            /\ byType[i].last10 = RecentOf(wins, 10)

\* eleven games of 501, the oldest one the only loss: it is outside both
\* windows
C3_Witness ==
    /\ Loaded
    /\ Len(match_players) = 11
    /\ winLossStats[1].games = 11
    /\ winLossStats[1].losses = 1
    /\ winLossStats[1].last10 = "10-0"
    /\ winLossStats[1].last5 = "5-0"
    /\ gameTypeStats("p1")[2].last10 = "10-0"

----------------------------------------------------------------------------
(* C4 *)

HasScore(i) == match_players[i].score # NoScore
X01Rows(p) == {i \in RowsOf(p) : TypeOfRow(i) \in {"501", "301"} /\ HasScore(i)}
CricketRows(p) == {i \in RowsOf(p) : TypeOfRow(i) = "Cricket" /\ HasScore(i)}

RECURSIVE ScoreSum(_)
ScoreSum(S) ==
    IF S = {} THEN 0
    ELSE LET i == CHOOSE i \in S : TRUE
         IN  match_players[i].score + ScoreSum(S \ {i})

EntriesOf(list, p) == {i \in DOMAIN list : list[i].playerId = p}

\* p is listed exactly when it has qualifying rows, once, with their average
AverageListed(list, p, qualifying) ==
    /\ Cardinality(EntriesOf(list, p)) = (IF qualifying = {} THEN 0 ELSE 1)
    /\ \A i \in EntriesOf(list, p) :
          /\ list[i].avg[2] > 0
          /\ FracEq(list[i].avg, Frac(ScoreSum(qualifying), Cardinality(qualifying)))

\* C4: a player appears in a category-average leaderboard (3-dart average,
\* MPR) exactly when the player has at least one qualifying row (matching
\* game type and a numeric score), and then the average is the sum of the
\* qualifying scores divided by their number; no qualifying row, no entry.
C4_AverageListedIffQualifying ==
    Loaded =>
        \A p \in Players :
           /\ AverageListed(threeDartStats, p, X01Rows(p))
           /\ AverageListed(mprStats, p, CricketRows(p))

\* a player averages two x01 scores and has no MPR entry, although that
\* player has a Cricket row (its score is absent)
C4_Witness ==
    /\ Loaded
    /\ \E i \in DOMAIN threeDartStats :
          /\ threeDartStats[i].games = 2
          /\ FracEq(threeDartStats[i].avg, Frac(2, 1))
          /\ EntriesOf(mprStats, threeDartStats[i].playerId) = {}
          /\ RowsInCategory(threeDartStats[i].playerId, "Cricket") # {}

----------------------------------------------------------------------------
(* C5 *)

ZeroRecord(r) ==
    /\ IsZeroFrac(r.winPct)
    /\ r.streak = ""
    /\ r.last5 = ""
    /\ r.last10 = ""

\* C5: any record with zero games has winPct = 0, streak = "", last5 = ""
\* and last10 = ""; a game-type row for a category in which the selected
\* player has no games has wins = losses = games = 0 with these values.
C5_ZeroGames ==
    Loaded =>
        /\ \A i \in DOMAIN winLossStats :
              winLossStats[i].games = 0 => ZeroRecord(winLossStats[i])
        /\ \A p \in Players :
              LET byType == gameTypeStats(p)
                  byOpponent == headToHeadStats(p)
              IN  /\ \A i \in DOMAIN byOpponent :
                        byOpponent[i].games = 0 => ZeroRecord(byOpponent[i])
                  /\ \A i \in DOMAIN byType :
                        /\ byType[i].games = 0 => ZeroRecord(byType[i])
                        /\ RowsInCategory(p, byType[i].type) = {} =>
                              /\ byType[i].wins = 0
                              /\ byType[i].losses = 0
                              /\ byType[i].games = 0
                              /\ ZeroRecord(byType[i])

\* a player with games in one category and none in another
C5_Witness ==
    /\ Loaded
    /\ \E p \in Players :
          LET byType == gameTypeStats(p)
          IN  /\ byType # <<>>
              /\ \E i \in DOMAIN byType : byType[i].games = 0
              /\ \E i \in DOMAIN byType : byType[i].games > 0 /\ byType[i].last5 # ""

----------------------------------------------------------------------------
(* C6 *)

MatchIds == {match_players[i].match_id : i \in DOMAIN match_players}
RowOf(p, m) ==
    CHOOSE i \in DOMAIN match_players :
        match_players[i].player_id = p /\ match_players[i].match_id = m
SharedMatches(p, q) ==
    {m \in MatchIds : Plays(match_players, p, m) /\ Plays(match_players, q, m)}

\* the outcomes p has against q: one per shared match, carrying p's winner
\* flag and the match timestamp
FacedIn(outcomes, p, q) ==
    /\ Len(outcomes) = Cardinality(SharedMatches(p, q))
    /\ \A m \in SharedMatches(p, q) :
          Cardinality({i \in DOMAIN outcomes :
              outcomes[i] = [playedAt |-> match_players[RowOf(p, m)].matches.played_at,
                             isWin |-> WonRow(RowOf(p, m))]}) = 1

----------------------------------------------------------------------------
(* C7 *)

\* (a.winPct, a.wins, a.games) >= (b.winPct, b.wins, b.games), lexicographically
WinLossGeq(a, b) ==
    \/ FracLess(b.winPct, a.winPct)
    \/ /\ FracEq(a.winPct, b.winPct)
       /\ \/ a.wins > b.wins
          \/ (a.wins = b.wins /\ a.games >= b.games)

WinLossOrdered(list) ==
    \A i \in 1..(Len(list) - 1) : WinLossGeq(list[i], list[i + 1])

\* C7: the overall records list and each head-to-head list are ordered by win
\* percentage descending, ties broken by wins descending, then by games
\* descending.
C7_WinLossOrder ==
    Loaded =>
        /\ WinLossOrdered(winLossStats)
        /\ \A p \in Players : WinLossOrdered(headToHeadStats(p))

\* three players: the one fetched first is not listed first, and two of them
\* tie on win percentage and wins and are listed by games
C7_Witness ==
    /\ Loaded
    /\ Len(winLossStats) = 3
    /\ winLossStats[1].playerId # match_players[1].player_id
    /\ FracLess(winLossStats[2].winPct, winLossStats[1].winPct)
    /\ FracEq(winLossStats[2].winPct, winLossStats[3].winPct)
    /\ winLossStats[2].wins = winLossStats[3].wins
    /\ winLossStats[2].games > winLossStats[3].games
    /\ \E p \in Players : Len(headToHeadStats(p)) = 2

----------------------------------------------------------------------------
(* C8 *)

AverageGeq(a, b) ==
    \/ FracLess(b.avg, a.avg)
    \/ (FracEq(a.avg, b.avg) /\ a.games >= b.games)

AverageOrdered(list) ==
    \A i \in 1..(Len(list) - 1) : AverageGeq(list[i], list[i + 1])

\* C8: each category-average list (3-dart average, MPR) is ordered by average
\* descending, ties broken by the number of qualifying games descending.
C8_AverageOrder ==
    Loaded => AverageOrdered(threeDartStats) /\ AverageOrdered(mprStats)

\* two players with the same 3-dart average; the one with more games was
\* fetched second and is listed first
C8_Witness ==
    /\ Loaded
    /\ Len(threeDartStats) = 2
    /\ FracEq(threeDartStats[1].avg, threeDartStats[2].avg)
    /\ threeDartStats[1].games > threeDartStats[2].games
    /\ threeDartStats[2].playerId = match_players[1].player_id

----------------------------------------------------------------------------
(* C9 *)

\* C9: for a selected player with at least one row the game-type breakdown
\* has exactly the four rows Cricket, 501, 301, Other in this order, whatever
\* the player played; a category without games is present with zero fields.
C9_FourGameTypeRows ==
    Loaded =>
        \A p \in Players :
           RowsOf(p) # {} =>
              LET byType == gameTypeStats(p)
              IN  /\ Len(byType) = 4
                  /\ [i \in 1..4 |-> byType[i].type] = <<"Cricket", "501", "301", "Other">>
                  /\ \A i \in 1..4 :
                        byType[i].games = Cardinality(RowsInCategory(p, byType[i].type))

\* a player who played 501 only: the Cricket row is there, with no games
C9_Witness ==
    /\ Loaded
    /\ \E p \in Players :
          LET byType == gameTypeStats(p)
          IN  /\ RowsOf(p) # {}
              /\ RowsOf(p) = RowsInCategory(p, "501")
              /\ byType[1].type = "Cricket" /\ byType[1].games = 0
              /\ byType[2].type = "501" /\ byType[2].games = Cardinality(RowsOf(p))

----------------------------------------------------------------------------
(* C10 *)

GamesListed(list, p) ==
    IF EntriesOf(list, p) = {} THEN 0
    ELSE list[CHOOSE i \in EntriesOf(list, p) : TRUE].games

\* the overall record and the game-type rows of p count every row of p
CountsEveryRow(p) ==
    LET byType == gameTypeStats(p)
    IN  /\ \A i \in EntriesOf(winLossStats, p) :
              /\ winLossStats[i].games = Cardinality(RowsOf(p))
              /\ winLossStats[i].wins = Cardinality({r \in RowsOf(p) : WonRow(r)})
              /\ winLossStats[i].losses = Cardinality({r \in RowsOf(p) : ~WonRow(r)})
        /\ Cardinality(EntriesOf(winLossStats, p)) = (IF RowsOf(p) = {} THEN 0 ELSE 1)
        /\ \A i \in DOMAIN byType :
              /\ byType[i].games = Cardinality(RowsInCategory(p, byType[i].type))
              /\ byType[i].wins =
                    Cardinality({r \in RowsInCategory(p, byType[i].type) : WonRow(r)})

\* C10: a row of a qualifying game type whose score is absent is not counted
\* in the category average (neither in the total nor in the game count) but
\* is counted in the player's overall wins/losses/games and in the game-type
\* breakdown.
C10_AbsentScore ==
    Loaded =>
        \A p \in Players :
           /\ GamesListed(threeDartStats, p) = Cardinality(X01Rows(p))
           /\ GamesListed(mprStats, p) = Cardinality(CricketRows(p))
           /\ \A i \in EntriesOf(threeDartStats, p) :
                 FracEq(threeDartStats[i].avg,
                        Frac(ScoreSum(X01Rows(p)), Cardinality(X01Rows(p))))
           /\ \A i \in EntriesOf(mprStats, p) :
                 FracEq(mprStats[i].avg,
                        Frac(ScoreSum(CricketRows(p)), Cardinality(CricketRows(p))))
           /\ CountsEveryRow(p)

\* a player with a scored and an unscored x01 row, and an unscored Cricket row
C10_Witness ==
    /\ Loaded
    /\ \E p \in Players :
          /\ \E i \in RowsOf(p) : TypeOfRow(i) \in {"501", "301"} /\ ~HasScore(i)
          /\ \E i \in RowsOf(p) : TypeOfRow(i) = "Cricket" /\ ~HasScore(i)
          /\ Cardinality(X01Rows(p)) = 1
          /\ GamesListed(threeDartStats, p) = 1
          /\ \E i \in EntriesOf(winLossStats, p) : winLossStats[i].games = 3

----------------------------------------------------------------------------
(* C11 *)

OnlyTypes(rows, types) == SelectSeq(rows, LAMBDA r : r.matches.game_type \in types)
WithoutRow(rows, i) == [k \in 1..(Len(rows) - 1) |-> IF k < i THEN rows[k] ELSE rows[k + 1]]

\* the player page shows totals computed from the rows of its stats fetch
StatsLoaded == stats # <<>> /\ profilePc \in {"recent", "done"} /\ profileErrorMessage = ""

SameThreeDart(a, b) == a.threeGames = b.threeGames /\ a.threeAvg = b.threeAvg
SameMpr(a, b) == a.mprGames = b.mprGames /\ a.mprAvg = b.mprAvg

\* C11: only 501 and 301 rows contribute to a player's 3-dart average and only
\* Cricket rows to the MPR, on the home page and on the player page: the
\* tables are those of the 501/301 rows alone and of the Cricket rows alone,
\* and taking away one row of another game type changes nothing.
C11_CategoryAverageSources ==
    /\ Loaded =>
          LET x01Only == processRows(emptyMaps, OnlyTypes(match_players, {"501", "301"}))
              cricketOnly == processRows(emptyMaps, OnlyTypes(match_players, {"Cricket"}))
          IN  /\ threeDartStats = averageListOf(x01Only.threeMap)
              /\ mprStats = averageListOf(cricketOnly.mprMap)
              /\ \A i \in DOMAIN match_players :
                    LET rest == processRows(emptyMaps, WithoutRow(match_players, i))
                    IN  /\ TypeOfRow(i) \notin {"501", "301"} =>
                              averageListOf(rest.threeMap) = threeDartStats
                        /\ TypeOfRow(i) # "Cricket" =>
                              averageListOf(rest.mprMap) = mprStats
    /\ StatsLoaded =>
          LET mine == playerRows(ProfileId)
              x01Only == playerStatsSummary(OnlyTypes(mine, {"501", "301"}))
              cricketOnly == playerStatsSummary(OnlyTypes(mine, {"Cricket"}))
          IN  /\ SameThreeDart(stats[1], x01Only)
              /\ SameMpr(stats[1], cricketOnly)
              /\ stats[1].threeGames = Cardinality(X01Rows(ProfileId))
              /\ stats[1].mprGames = Cardinality(CricketRows(ProfileId))
              /\ \A i \in DOMAIN mine :
                    LET rest == playerStatsSummary(WithoutRow(mine, i))
                    IN  /\ mine[i].matches.game_type \notin {"501", "301"} =>
                              SameThreeDart(stats[1], rest)
                        /\ mine[i].matches.game_type # "Cricket" =>
                              SameMpr(stats[1], rest)

\* both pages loaded from a 501 or 301 row, a Cricket row and a row of an
\* unlisted game, all scored
C11_Witness ==
    /\ Loaded
    /\ StatsLoaded
    /\ \E i, j, k \in DOMAIN match_players :
          /\ TypeOfRow(i) \in {"501", "301"}
          /\ TypeOfRow(j) = "Cricket"
          /\ TypeOfRow(k) = "Killer"
          /\ match_players[i].score # match_players[j].score
    /\ Len(threeDartStats) = 1 /\ threeDartStats[1].games = 1
    /\ Len(mprStats) = 1 /\ mprStats[1].games = 1
    /\ stats[1].games = 3 /\ stats[1].threeGames = 1 /\ stats[1].mprGames = 1

----------------------------------------------------------------------------
(* C12 *)

ParticipantsOf(m) == {i \in DOMAIN match_players : match_players[i].match_id = m}
EveryMatchIsOneOnOne == \A m \in MatchIds : Cardinality(ParticipantsOf(m)) = 2

\* the games of a's head-to-head record against b; 0 when a's table has no b
GamesAgainst(a, b) ==
    LET records == headToHeadStats(a)
        listed == {i \in DOMAIN records : records[i].playerId = b}
    IN  IF listed = {} THEN 0 ELSE records[CHOOSE i \in listed : TRUE].games

\* C12: when every match has exactly two participants, the head-to-head games
\* of A against B equal the head-to-head games of B against A, for every pair.
C12_OneOnOneGamesSymmetric ==
    (Loaded /\ EveryMatchIsOneOnOne) =>
        \A a \in Players : \A b \in Players \ {a} :
           GamesAgainst(a, b) = GamesAgainst(b, a)

\* two matches of two between the same pair: both tables show two games
C12_Witness ==
    /\ Loaded
    /\ EveryMatchIsOneOnOne
    /\ Cardinality(MatchIds) = 2
    /\ GamesAgainst("p1", "p2") = 2
    /\ GamesAgainst("p2", "p1") = 2

----------------------------------------------------------------------------
(* C13 *)

----------------------------------------------------------------------------
(* C14 *)

Reordered(rows, perm) == [k \in DOMAIN rows |-> rows[perm[k]]]

CountsAndForm(r) == <<r.wins, r.losses, r.games, r.streak, r.last5, r.last10>>

\* what the tables computed from rows say of each player: overall, per game
\* type and against each opponent
PlayerSummaries(rows) ==
    LET maps == processRows(emptyMaps, rows)
        overall == wlListOf(maps)
        headMap == headMapOf(maps.matchParticipants)
    IN  [overall |-> {<<overall[i].playerId, CountsAndForm(overall[i])>> :
                         i \in DOMAIN overall},
         byType |-> UNION {
             {<<maps.perGameTypeMap[i].key, GAME_TYPE_ORDER[t],
                CountsAndForm(gameTypeRow(GAME_TYPE_ORDER[t], maps.perGameTypeMap[i].val))>> :
                 t \in DOMAIN GAME_TYPE_ORDER} : i \in DOMAIN maps.perGameTypeMap},
         head |-> UNION {
             {<<headMap[i].key, headMap[i].val[j].key,
                CountsAndForm(headToHeadRecord(headMap[i].val[j].key, headMap[i].val[j].val))>> :
                 j \in DOMAIN headMap[i].val} : i \in DOMAIN headMap}]

\* C14: the aggregator treats its input as an unordered collection: for any
\* two orderings of the same rows every player's wins, losses, games, streak,
\* last5 and last10 (overall, per game type and head-to-head) are the same,
\* also when several of a player's rows carry the same playedAt.
C14_OrderOfRowsIrrelevant ==
    Loaded =>
        \A perm \in Permutations(DOMAIN match_players) :
           PlayerSummaries(Reordered(match_players, perm)) = PlayerSummaries(match_players)

----------------------------------------------------------------------------
(* C15 *)

HasPlayerId(r) == r.player_id # ""
Orphans == {i \in DOMAIN match_players : ~HasPlayerId(match_players[i])}

\* no table, map key or opponent entry stands for the missing id
NoTraceOfMissingId ==
    /\ \A i \in DOMAIN winLossStats : winLossStats[i].playerId # ""
    /\ \A i \in DOMAIN threeDartStats : threeDartStats[i].playerId # ""
    /\ \A i \in DOMAIN mprStats : mprStats[i].playerId # ""
    /\ ~MapHas(gameTypeMap, "") /\ ~MapHas(playerNames, "")
    /\ ~MapHas(headToHeadMap, "")
    /\ \A i \in DOMAIN headToHeadMap : ~MapHas(headToHeadMap[i].val, "")
    /\ \A p \in Players :
          LET records == headToHeadStats(p)
          IN  \A i \in DOMAIN records : records[i].playerId # ""

\* C15: a row with a missing player id is skipped without aborting the
\* computation and contributes to no output -- no counts, no averages, no
\* participant of its match for head-to-head -- and the tables are those the
\* remaining rows alone would give.
C15_MissingPlayerIdSkipped ==
    Loaded =>
        LET rest == processRows(emptyMaps, SelectSeq(match_players, HasPlayerId))
        IN  /\ winLossStats = wlListOf(rest)
            /\ threeDartStats = averageListOf(rest.threeMap)
            /\ mprStats = averageListOf(rest.mprMap)
            /\ headToHeadMap = headMapOf(rest.matchParticipants)
            /\ gameTypeMap = rest.perGameTypeMap
            /\ playerNames = rest.playerNameMap
            /\ NoTraceOfMissingId

\* a match of p1, p2 and a row without player id, fetched first: two overall
\* records, and p1's head-to-head table lists p2 alone
C15_Witness ==
    /\ Loaded
    /\ 1 \in Orphans
    /\ Len(match_players) = 3
    /\ \A i \in DOMAIN match_players : match_players[i].match_id = "r1"
    /\ Len(winLossStats) = 2
    /\ Len(headToHeadStats("p1")) = 1
    /\ headToHeadStats("p1")[1].playerId = "p2"

----------------------------------------------------------------------------
(* C16 *)

\* a selection the dropdowns can hold: a player, or none ("")
Selections == Players \cup {""}

\* C16: on an empty row set every output of the aggregator is an empty
\* collection -- overall leaderboard, 3-dart average and MPR leaderboards,
\* head-to-head data and game-type breakdown -- and the per-player tables are
\* empty for any selected player id, none of which has data.
C16_EmptyRowsEmptyOutputs ==
    (Loaded /\ match_players = <<>>) =>
        /\ winLossStats = <<>>
        /\ threeDartStats = <<>>
        /\ mprStats = <<>>
        /\ headToHeadMap = <<>>
        /\ gameTypeMap = <<>>
        /\ playerNames = <<>>
        /\ \A p \in Selections :
              headToHeadStats(p) = <<>> /\ gameTypeStats(p) = <<>>

\* the fetch was answered with no rows and the tables were stored
C16_Witness ==
    /\ Loaded
    /\ match_players = <<>>
    /\ Len(winLossStats) = 0
    /\ Len(gameTypeStats("p1")) = 0
    /\ Len(headToHeadStats("p1")) = 0

----------------------------------------------------------------------------
(* C17 *)

FetchFailed == ~loading /\ errorMessage # ""

\* the "no matches / no data yet" messages of the five sections
EmptyMessages ==
    {"No matches recorded yet.",
     "No game type records available yet.",
     "No 501 or 301 matches recorded yet.",
     "No Cricket matches recorded yet.",
     "No head-to-head data available yet."}

\* C17: after the leaderboard fetch fails the page is in a "could not load"
\* state distinct from "loaded but empty": no leaderboard section (overall,
\* game type, 3-dart average, MPR, head-to-head) shows its "no matches / no
\* data yet" message for a failed fetch.
C17_FailedFetchShowsNoEmptyMessage ==
    FetchFailed =>
        /\ overallSection \notin EmptyMessages
        /\ threeDartSection \notin EmptyMessages
        /\ mprSection \notin EmptyMessages
        /\ \A p \in Selections :
              /\ gameTypeSection(p) \notin EmptyMessages
              /\ headToHeadSection(p) \notin EmptyMessages

----------------------------------------------------------------------------
(* C18 *)

StatsFetchFailed == profileErrorMessage = "Could not load player stats."

\* C18: the aggregator is never invoked on a failed fetch: when the fetch of
\* match rows returns an error no statistics are computed or stored for that
\* load -- on the home page the leaderboard state is not set, on the player
\* page stats stays null.
C18_NoStatsFromFailedFetch ==
    /\ FetchFailed =>
          /\ winLossStats = <<>> /\ threeDartStats = <<>> /\ mprStats = <<>>
          /\ headToHeadMap = <<>> /\ gameTypeMap = <<>> /\ playerNames = <<>>
    /\ StatsFetchFailed => stats = <<>>

----------------------------------------------------------------------------
(* C19 *)

CategoryOf(r) ==
    IF r.matches.game_type \in {"Cricket", "501", "301"} THEN r.matches.game_type
    ELSE "Other"

\* the outcomes of p's games of the given categories, in fetch order
PlayedOutcomes(p, types) ==
    LET rows == SelectSeq(match_players,
                          LAMBDA r : r.player_id = p /\ CategoryOf(r) \in types)
    IN  [k \in DOMAIN rows |->
            [playedAt |-> rows[k].matches.played_at, isWin |-> rows[k].is_winner = TRUE]]

Form(r) == <<r.streak, r.last5, r.last10>>

\* the inline computation of the overall leaderboard, applied to a list
InlineForm(p, outcomes) ==
    Form(wlRecord([playerId |-> p, displayName |-> "", wins |-> 0, losses |-> 0,
                   games |-> 0],
                  <<[key |-> p, val |-> outcomes]>>))

\* C19: summarizeOutcomes, which summarizes the head-to-head records and the
\* game-type rows, returns for every outcome list the streak, last5 and last10
\* the inline computation of the overall leaderboard gives, and the values of
\* a game-type row are those of exactly the player's games in that category.
C19_SummariesAgree ==
    Loaded =>
        \A p \in Players :
           LET all == PlayedOutcomes(p, {"Cricket", "501", "301", "Other"})
               byType == gameTypeStats(p)
           IN  /\ Form(summarizeOutcomes(all)) = InlineForm(p, all)
               /\ \A i \in EntriesOf(winLossStats, p) :
                     Form(winLossStats[i]) = Form(summarizeOutcomes(all))
               /\ \A i \in DOMAIN byType :
                     LET played == PlayedOutcomes(p, {byType[i].type})
                     IN  /\ byType[i].games = Len(played)
                         /\ Form(byType[i]) = InlineForm(p, played)

\* ten or more games of the mixed season with a win before two final losses;
\* the 501 row, over three games, has a form of its own
C19_Witness ==
    /\ Loaded
    /\ Len(winLossStats) = 1
    /\ winLossStats[1].games >= 10
    /\ winLossStats[1].streak = "L2"
    /\ winLossStats[1].last5 # winLossStats[1].last10
    /\ LET byType == gameTypeStats("p1")
       IN  /\ byType[2].games = 3
           /\ byType[1].games = 2
           /\ byType[2].streak # winLossStats[1].streak
           /\ byType[2].last5 # winLossStats[1].last5

----------------------------------------------------------------------------
(* C20 *)

DefaultMatchView(m, p, c, t) == m = <<>> /\ p = <<>> /\ c = 1 /\ t = 1

\* a run of load goes from its user lookup straight to its end
LookupResolvesWithoutUser ==
    \E k \in DOMAIN matchesPc : matchesPc[k] = "user" /\ matchesPc'[k] = "done"

\* C20: clearMatchesState resets the match view to its defaults whatever the
\* state before: whenever the user lookup of the matches page resolves with no
\* signed-in user, the step ends with matches = [], profiles = [],
\* currentPage = 1 and totalPages = 1.
C20_ClearResetsMatchView ==
    [][LookupResolvesWithoutUser =>
          DefaultMatchView(matches', profiles', currentPage', totalPages')]_vars

\* the view was cleared while it showed the second page of a listed store
C20_Witness ==
    /\ clearedFrom # <<>>
    /\ clearedFrom[1].currentPage = 2
    /\ clearedFrom[1].totalPages = 3
    /\ clearedFrom[1].matches # <<>>
    /\ clearedFrom[1].profiles # <<>>
    /\ user = ""
    /\ DefaultMatchView(matches, profiles, currentPage, totalPages)

----------------------------------------------------------------------------
(* C21 *)

\* the match_players rows of match id that are flagged winner
WinnerRows(id) ==
    {i \in DOMAIN storedMatchPlayers :
        storedMatchPlayers[i].match_id = id /\ storedMatchPlayers[i].is_winner}

\* C21: once every call of handleSaveMatch has returned (having saved, or
\* having caught the error of one of its store calls), every stored match has
\* exactly one match_players row with is_winner = true.
C21_StoredMatchHasOneWinner ==
    saveCalls = <<>> =>
        \A id \in DOMAIN storedMatches : Cardinality(WinnerRows(id)) = 1

----------------------------------------------------------------------------
(* C22 *)

\* the header carries the bearer token of an account
HasAccountToken(authHeader) == getUser(bearerToken(authHeader), Accounts) # ""

\* every request received so far, answered or not
HeadersReceived ==
    {deleteAnswers[i].authHeader : i \in DOMAIN deleteAnswers}
        \cup {deleteRequests[i].authHeader : i \in DOMAIN deleteRequests}

\* C22: when POST has answered "Account deleted", the caller has neither a
\* profiles row nor an identity record; a configured endpoint answers a
\* request without the bearer token of an account with 401, and as long as
\* no other request came nothing is deleted.
C22_SuccessMeansBothDeleted ==
    /\ \A i \in DOMAIN deleteAnswers :
          deleteAnswers[i].body = "Account deleted" =>
             /\ deleteAnswers[i].userId \notin storedProfiles
             /\ deleteAnswers[i].userId \notin authUsers
    /\ \A i \in DOMAIN deleteAnswers :
          supabaseAdmin /\ ~HasAccountToken(deleteAnswers[i].authHeader) =>
             deleteAnswers[i].status = 401
    /\ (\A h \in HeadersReceived : ~HasAccountToken(h)) =>
          storedProfiles = Accounts /\ authUsers = Accounts

----------------------------------------------------------------------------
(* C23 *)

\* C23: once every call of loadAllMatches has been answered, the call started
\* last with data and no error is on display, allMatches and
\* allMatchesTotalPages are those of the call started last, whatever order
\* the answers came in.
C23_LatestRequestWins ==
    (/\ allMatchesRequests = <<>>
     /\ latestRequest # <<>>
     /\ latestRequest[1].outcome = "data"
     /\ allMatchesError = "") =>
        LET answer == allMatchesAnswer(latestRequest[1])
        IN  /\ allMatches = answer.data
            /\ allMatchesTotalPages = allMatchesPagesOf(answer.count)

----------------------------------------------------------------------------
(* C24 *)

\* C24: in every reachable state of the match history,
\* 1 <= allMatchesPage <= allMatchesTotalPages.
C24_PageWithinTotalPages ==
    1 <= allMatchesPage /\ allMatchesPage <= allMatchesTotalPages

----------------------------------------------------------------------------
(* C25 *)

\* the stored match of this id passes the selected filters: its game type
\* is the selected one, and the row of the player of the page is a win
\* (a loss) when wins (losses) are selected
PassesSelectedFilters(id) ==
    LET stored == historyMatch(id)
    IN  /\ gameTypeFilter # "all" => stored.game_type = gameTypeFilter
        /\ resultFilter = "wins" =>
              \E i \in DOMAIN stored.match_players :
                 /\ stored.match_players[i].player_id = ProfileId
                 /\ stored.match_players[i].is_winner
        /\ resultFilter = "losses" =>
              \E i \in DOMAIN stored.match_players :
                 /\ stored.match_players[i].player_id = ProfileId
                 /\ ~stored.match_players[i].is_winner

\* C25: whenever allMatchesLoading is false (the effect of visibleAllMatches
\* has run), every match of visibleAllMatches passes the selected game type
\* filter and result filter, whatever order the answers came in.
C25_VisibleMatchesPassFilters ==
    ~allMatchesLoading =>
        \A i \in DOMAIN visibleAllMatches :
           PassesSelectedFilters(visibleAllMatches[i].id)

\* an overtaken answer is on display, filtered: every call is answered, the
\* call started last asked for 501 wins, allMatches holds matches of other
\* game types and results, and some of its matches are visible
C25_Witness ==
    /\ ~allMatchesLoading
    /\ allMatchesRequests = <<>>
    /\ gameTypeFilter = "501" /\ resultFilter = "wins"
    /\ latestRequest # <<>> /\ latestRequest[1].gameTypeFilter = "501"
    /\ latestRequest[1].outcome = "data"
    /\ Len(visibleAllMatches) > 0
    /\ Len(allMatches) > Len(visibleAllMatches)
    /\ C25_VisibleMatchesPassFilters

----------------------------------------------------------------------------
(* C26 *)

\* every match has exactly one participant flagged winner
EveryMatchHasOneWinner ==
    \A m \in MatchIds :
       Cardinality({i \in ParticipantsOf(m) : match_players[i].is_winner}) = 1

\* a's head-to-head record against b; wins and losses 0 when a's table has no b
RecordAgainst(a, b) ==
    LET records == headToHeadStats(a)
        listed == {i \in DOMAIN records : records[i].playerId = b}
    IN  IF listed = {} THEN [wins |-> 0, losses |-> 0]
        ELSE LET r == records[CHOOSE i \in listed : TRUE]
             IN  [wins |-> r.wins, losses |-> r.losses]

\* C26: when every match has exactly two distinct participants and exactly
\* one of them is flagged winner, the head-to-head wins of A against B equal
\* the head-to-head losses of B against A, for every pair of players.
C26_WinsAreOpponentsLosses ==
    (Loaded /\ EveryMatchIsOneOnOne /\ EveryMatchHasOneWinner) =>
        \A a \in Players : \A b \in Players \ {a} :
           RecordAgainst(a, b).wins = RecordAgainst(b, a).losses

\* p1 and p2 met twice and won one match each
C26_Witness ==
    /\ Loaded
    /\ EveryMatchIsOneOnOne /\ EveryMatchHasOneWinner
    /\ Cardinality(MatchIds) = 2
    /\ RecordAgainst("p1", "p2") = [wins |-> 1, losses |-> 1]
    /\ RecordAgainst("p2", "p1") = [wins |-> 1, losses |-> 1]

----------------------------------------------------------------------------
(* C27 *)

HomeEntry(list, p) == list[CHOOSE i \in EntriesOf(list, p) : TRUE]

\* the home page's overall record of p is the player page's record
SameRecord(p, s) ==
    IF s.games = 0 THEN EntriesOf(winLossStats, p) = {}
    ELSE /\ Cardinality(EntriesOf(winLossStats, p)) = 1
         /\ LET e == HomeEntry(winLossStats, p)
            IN  /\ e.games = s.games /\ e.wins = s.wins /\ e.losses = s.losses
                /\ e.streak = s.streak /\ e.last5 = s.last5

\* the home page's entry of p in an average list is the player page's average
SameAverage(list, p, avg, games) ==
    IF games = 0 THEN EntriesOf(list, p) = {}
    ELSE /\ Cardinality(EntriesOf(list, p)) = 1
         /\ HomeEntry(list, p).games = games
         /\ HomeEntry(list, p).avg = avg

\* C27: the player page and the home leaderboard agree: computed from the
\* same rows of one player, the player page's games, wins, losses, streak,
\* last5, 3-dart average and game count and MPR average and game count are
\* the values of the home page's tables for that player (who is absent from a
\* home table exactly when the player page counts no game for it).
C27_ProfileAgreesWithLeaderboard ==
    (Loaded /\ StatsLoaded) =>
        /\ SameRecord(ProfileId, stats[1])
        /\ SameAverage(threeDartStats, ProfileId, stats[1].threeAvg, stats[1].threeGames)
        /\ SameAverage(mprStats, ProfileId, stats[1].mprAvg, stats[1].mprGames)

\* both pages loaded: the player lost the unlisted game, then won the 501 and
\* lost the Cricket match of the same instant, both scored
C27_Witness ==
    /\ Loaded
    /\ StatsLoaded
    /\ stats[1].games = 3 /\ stats[1].wins = 1
    /\ stats[1].streak = "L1" /\ stats[1].last5 = "1-2"
    /\ stats[1].threeGames = 1 /\ stats[1].mprGames = 1
    /\ HomeEntry(winLossStats, ProfileId).streak = "L1"

----------------------------------------------------------------------------
(* C28 *)

ShownPlayerIds ==
    {activeEntries(playerEntries, numPlayers)[i].playerId :
        i \in DOMAIN activeEntries(playerEntries, numPlayers)}

\* C28: in the match form, after any sequence of number-of-players changes,
\* player selections, winner selections, edit clicks and form resets,
\* winnerPlayerId is empty or is the playerId of one of the first numPlayers
\* entries of playerEntries.
C28_WinnerIsShownPlayer ==
    winnerPlayerId = "" \/ winnerPlayerId \in ShownPlayerIds

\* the three-player match is being edited, its winner was selected in the
\* first entry as well, and the number of players was taken down to two
C28_Witness ==
    /\ editingMatchId = 2
    /\ numPlayers = 2
    /\ Len(playerEntries) = 2
    /\ playerEntries[1].playerId = "p3"
    /\ winnerPlayerId = "p3"

----------------------------------------------------------------------------
(* C29 *)

KeysOf(map) == {map[i].key : i \in DOMAIN map}
NameOf(p) == IF MapHas(playerNames, p) THEN MapGet(playerNames, p) ELSE "Unknown player"

\* effective is the player the claim names for a select over map
EffectivePlayerIsRight(map, selected, effective) ==
    /\ map # <<>> => effective \in KeysOf(map)
    /\ effective = "" => map = <<>>
    /\ IF selected \in KeysOf(map) THEN effective = selected
       ELSE IF homeUser # "" /\ homeUser \in KeysOf(map) THEN effective = homeUser
       ELSE \A k \in KeysOf(map) :
               localeCompare(NameOf(effective), NameOf(k)) <= 0

\* C29: after any sequence of data loads, sign-ins, sign-outs and dropdown
\* selections, the effective head-to-head player (and likewise the effective
\* game-type player) is a key of its map whenever the map is non-empty and
\* the empty string only when the map is empty; it is the explicit selection
\* if that is a key, else the signed-in user's id if that is a key, else the
\* first option by name.
C29_EffectivePlayers ==
    /\ EffectivePlayerIsRight(headToHeadMap, selectedHeadPlayer, effectiveHeadPlayer)
    /\ EffectivePlayerIsRight(gameTypeMap, selectedGameTypePlayer, effectiveGameTypePlayer)

\* a player who met an opponent is selected in the head-to-head select;
\* nothing is selected in the game-type select and the signed-in user played
\* no match: the first option by name is taken, which is not the first key
C29_Witness ==
    /\ Loaded
    /\ homeUser = "u1"
    /\ selectedHeadPlayer = "p3"
    /\ KeysOf(headToHeadMap) = {"p2", "p3"}
    /\ effectiveHeadPlayer = "p3"
    /\ selectedGameTypePlayer = ""
    /\ gameTypeMap[1].key = "p3"
    /\ effectiveGameTypePlayer = "p2"

----------------------------------------------------------------------------
(* C30 *)

RECURSIVE SumOfRows(_, _)
SumOfRows(rows, field) ==
    IF rows = <<>> THEN 0 ELSE Head(rows)[field] + SumOfRows(Tail(rows), field)

\* the overall games, wins or losses of p: nothing for a player not listed
OverallOf(p, field) ==
    IF EntriesOf(winLossStats, p) = {} THEN 0
    ELSE winLossStats[CHOOSE i \in EntriesOf(winLossStats, p) : TRUE][field]

\* C30: for every player, the games (and the wins, and the losses) of the
\* four game-type rows Cricket, 501, 301 and Other add up to the player's
\* overall games (wins, losses): every row of the player, one with a null or
\* unrecognized game type included, is counted in exactly one category.
C30_CategoriesAddUp ==
    Loaded =>
        \A p \in Players :
            LET byType == gameTypeStats(p)
            IN  /\ RowsOf(p) # {} =>
                      [i \in DOMAIN byType |-> byType[i].type]
                          = <<"Cricket", "501", "301", "Other">>
                /\ \A field \in {"games", "wins", "losses"} :
                      SumOfRows(byType, field) = OverallOf(p, field)
                /\ SumOfRows(byType, "games") = Cardinality(RowsOf(p))

\* a player with a game without a type, a game of an unlisted type and a
\* Cricket game, won and lost
C30_Witness ==
    /\ Loaded
    /\ \E i, j, k \in RowsOf("p1") :
          /\ TypeOfRow(i) = "" /\ TypeOfRow(j) = "Killer" /\ TypeOfRow(k) = "Cricket"
          /\ WonRow(i) /\ ~WonRow(j)
    /\ OverallOf("p1", "games") = 3
    /\ gameTypeStats("p1")[4].games = 2
    /\ gameTypeStats("p1")[4].wins = 1

====
